---- MODULE Spec2Model ----
(***************************************************************************)
(* Model of tools/vcd_to_pulseview_csv.py: the VCD -> CSV converter.       *)
(*                                                                         *)
(* One run of vcd_to_csv is a state machine: Init is the state after the   *)
(* header has been parsed and the columns selected; every action reads     *)
(* one further body line of the VCD file (a time marker, a scalar change,  *)
(* a vector change, a skipped line) or reaches the end of the file.        *)
(*                                                                         *)
(* Times are Python floats (IEEE-754 doubles).  The model keeps a double   *)
(* as the pair <<m, e>> of value m * 2^e, m a natural number of 53 bits     *)
(* written in base 2^15.  Products, sums, the conversion of decimal text   *)
(* and the formatting with 12 fractional digits are computed on the exact  *)
(* values and rounded to nearest, ties to even, as the interpreter does.   *)
(***************************************************************************)
EXTENDS Integers, Sequences, FiniteSets, TLC

\* ------------------------------------------------------------------ bounds
\* Body lines read before the end of the file.
MaxLines == 4
\* The same, where every raw value and payload is tried.
SanLines == 3
\* The same, for the logs made of the documented scenario's lines.
ScenarioLines == 5
\* Largest tick of a time marker "#<tick>" in event mode.
EvMaxTick == 3
\* Lines of a viewer-configuration file.
MaxGtkwLines == 2
\* $var declarations of a header, and names of an explicit list.
MaxDecls == 2
MaxWanted == 2
\* Body lines, and characters of a vector payload, where the payload may be
\* longer than the bus.
VecLines == 2
MaxPayload == 3
\* Body lines read on the headers with aliased scalars.
AliasLines == 3
\* Body lines read where some identifiers are mapped to no column.
FrameLines == 3
\* Lines of the header before the declarations, and body lines read after
\* such a header.
MaxTsLines == 4
TsBodyLines == 2
\* Lines of the header before the declarations of a file given as a whole.
WholeTsLines == 2
\* Body lines read, and rows written, where the emission loop is followed
\* one iteration at a time.
StepLines == 3
MaxRows == 4

\* ------------------------------------------------------------ Python None
None == -1
NoneF == <<>>

\* ---------------------------------------------------- natural numbers
\* A natural number of any size is the sequence of its digits in base
\* 2^15, least significant first, without leading zero digit (0 is <<>>).
LimbBits == 15
LimbBase == 32768

Pow2(k) == 2 ^ k
Max(a, b) == IF a >= b THEN a ELSE b

RECURSIVE BTrim(_)
BTrim(a) ==
    IF a # <<>> /\ a[Len(a)] = 0 THEN BTrim(SubSeq(a, 1, Len(a) - 1)) ELSE a

RECURSIVE BFromInt(_)
BFromInt(i) ==
    IF i = 0 THEN <<>> ELSE <<i % LimbBase>> \o BFromInt(i \div LimbBase)

RECURSIVE BAddC(_, _, _)
BAddDigit(a, b, s) ==
    <<s % LimbBase>> \o BAddC(IF a = <<>> THEN a ELSE Tail(a),
                              IF b = <<>> THEN b ELSE Tail(b), s \div LimbBase)
BAddC(a, b, c) ==
    IF a = <<>> /\ b = <<>> THEN (IF c = 0 THEN <<>> ELSE <<c>>)
    ELSE BAddDigit(a, b, (IF a = <<>> THEN 0 ELSE Head(a))
                             + (IF b = <<>> THEN 0 ELSE Head(b)) + c)
BAdd(a, b) == BAddC(a, b, 0)

\* a - b - c for a >= b + c.
RECURSIVE BSubB(_, _, _)
BSubDigit(a, b, d) ==
    <<(d + LimbBase) % LimbBase>>
        \o BSubB(Tail(a), IF b = <<>> THEN b ELSE Tail(b), IF d < 0 THEN 1 ELSE 0)
BSubB(a, b, c) ==
    IF a = <<>> THEN <<>>
    ELSE BSubDigit(a, b, Head(a) - (IF b = <<>> THEN 0 ELSE Head(b)) - c)
BSub(a, b) == BTrim(BSubB(a, b, 0))

\* a * k + c for k <= 2^15.
RECURSIVE BMulSmallC(_, _, _)
BMulSmallDigit(a, k, p) ==
    <<p % LimbBase>> \o BMulSmallC(Tail(a), k, p \div LimbBase)
BMulSmallC(a, k, c) ==
    IF a = <<>> THEN (IF c = 0 THEN <<>> ELSE <<c>>)
    ELSE BMulSmallDigit(a, k, Head(a) * k + c)

RECURSIVE BMulLoop(_, _)
BMulLoop(a, b) ==
    IF b = <<>> THEN <<>>
    ELSE BAdd(BMulSmallC(a, Head(b), 0), <<0>> \o BMulLoop(a, Tail(b)))
BMul(a, b) == IF a = <<>> \/ b = <<>> THEN <<>> ELSE BTrim(BMulLoop(a, b))

RECURSIVE IntBits(_)
IntBits(i) == IF i = 0 THEN 0 ELSE 1 + IntBits(i \div 2)

\* Number of bits of a (0 for 0).
BBitLen(a) ==
    IF a = <<>> THEN 0 ELSE LimbBits * (Len(a) - 1) + IntBits(a[Len(a)])

\* a * 2^s
BShl(a, s) ==
    IF a = <<>> THEN <<>>
    ELSE [i \in 1..(s \div LimbBits) |-> 0]
             \o BMulSmallC(a, Pow2(s % LimbBits), 0)

\* floor(a / 2^s)
BShrDigits(rest, p) ==
    BTrim([i \in 1..Len(rest) |->
              (rest[i] \div p)
                  + (IF i < Len(rest) THEN (rest[i + 1] % p) * (LimbBase \div p)
                     ELSE 0)])
BShr(a, s) ==
    IF s \div LimbBits >= Len(a) THEN <<>>
    ELSE BShrDigits(SubSeq(a, s \div LimbBits + 1, Len(a)), Pow2(s % LimbBits))

\* Bit i of a (bit 0 is the lowest).
BBit(a, i) ==
    IF i \div LimbBits >= Len(a) THEN 0
    ELSE (a[i \div LimbBits + 1] \div Pow2(i % LimbBits)) % 2

\* The s lowest bits of a are all zero.
BLowZero(a, s) ==
    /\ \A j \in 1..(s \div LimbBits) : j > Len(a) \/ a[j] = 0
    /\ (s \div LimbBits >= Len(a)
           \/ a[s \div LimbBits + 1] % Pow2(s % LimbBits) = 0)

BLess(a, b) ==
    IF Len(a) # Len(b) THEN Len(a) < Len(b)
    ELSE \E i \in 1..Len(a) :
             a[i] < b[i] /\ \A j \in (i + 1)..Len(a) : a[j] = b[j]

\* --------------------------------------------------------- IEEE-754 double
\* A non-negative double is <<m, e>>: the value m * 2^e, with m a natural
\* number of exactly 53 bits (fewer only for subnormals, where e = -1074);
\* 0.0 is <<<<>>, 0>>.
EMin == 0 - 1074
FZero == <<<<>>, 0>>

\* q * 2^e for q < 2^54 of at most 53 bits, or 2^53 after rounding up.
FPack(q, e) ==
    IF q = <<>> THEN FZero
    ELSE IF BBitLen(q) > 53 THEN <<BShr(q, 1), e + 1>>
    ELSE <<q, e>>

\* N * 2^e with the s lowest bits of N rounded away, ties to even.
FRoundShift(N, e, s) ==
    IF s <= 0 THEN <<BShl(N, 0 - s), e + s>>
    ELSE IF BBit(N, s - 1) = 1 /\ (~BLowZero(N, s - 1) \/ BBit(N, s) = 1)
    THEN FPack(BAdd(BShr(N, s), <<1>>), e + s)
    ELSE FPack(BShr(N, s), e + s)

\* The double nearest to N * 2^e.
FRoundBig(N, e) ==
    IF N = <<>> THEN FZero
    ELSE FRoundShift(N, e, Max(BBitLen(N) - 53, EMin - e))

\* float(i) for a Python int 0 <= i < 2^31.
FFromInt(i) == FRoundBig(BFromInt(i), 0)

\* x * y on doubles.
FMul(x, y) == FRoundBig(BMul(x[1], y[1]), x[2] + y[2])

\* i * x, i a Python int, x a double.
FMulInt(i, x) == FRoundBig(BMul(x[1], BFromInt(i)), x[2])

\* x + y on doubles: exact sum, rounded; an addend below a quarter of the
\* other's last place changes nothing.
FAddAligned(x, y, e) ==
    FRoundBig(BAdd(BShl(x[1], x[2] - e), BShl(y[1], y[2] - e)), e)
FAdd(x, y) ==
    IF x[1] = <<>> THEN y
    ELSE IF y[1] = <<>> THEN x
    ELSE IF x[2] - y[2] >= 56 THEN x
    ELSE IF y[2] - x[2] >= 56 THEN y
    ELSE FAddAligned(x, y, IF x[2] <= y[2] THEN x[2] ELSE y[2])

\* x < y and x <= y on doubles.
FLess(x, y) ==
    IF y[1] = <<>> THEN FALSE
    ELSE IF x[1] = <<>> THEN TRUE
    ELSE x[2] < y[2] \/ (x[2] = y[2] /\ BLess(x[1], y[1]))
FLeq(x, y) == ~FLess(y, x)

\* ------------------------------------------------- decimal text and doubles
\* The decimal digits, as characters.
Digits == <<"0", "1", "2", "3", "4", "5", "6", "7", "8", "9">>
IsDigit(c) == \E i \in 1..10 : Digits[i] = c
DigitVal(c) == (CHOOSE i \in 1..10 : Digits[i] = c) - 1

\* int(s) for a string of decimal digits, of any length.
RECURSIVE BFromDigits(_)
BFromDigits(s) ==
    IF s = <<>> THEN <<>>
    ELSE BMulSmallC(BFromDigits(SubSeq(s, 1, Len(s) - 1)), 10, DigitVal(s[Len(s)]))

\* 10^k
RECURSIVE BPow10(_)
BPow10(k) == IF k = 0 THEN <<1>> ELSE BMulSmallC(BPow10(k - 1), 10, 0)

\* <<floor(a / k), a mod k>> for 0 < k <= 2^15.
RECURSIVE BDivSmall(_, _)
BDivSmallStep(hd, hi, k) ==
    <<<<(hi[2] * LimbBase + hd) \div k>> \o hi[1], (hi[2] * LimbBase + hd) % k>>
BDivSmall(a, k) ==
    IF a = <<>> THEN <<<<>>, 0>>
    ELSE BDivSmallStep(Head(a), BDivSmall(Tail(a), k), k)

\* str(a)
RECURSIVE BToDigits(_)
BToDigitsStep(qr) == BToDigits(BTrim(qr[1])) \o <<Digits[qr[2] + 1]>>
BToDigits(a) == IF a = <<>> THEN <<>> ELSE BToDigitsStep(BDivSmall(a, 10))

\* The quotient bits of R / P (P <= R < 2 * P at the start) after the ones
\* of Q, up to 56 bits, and whether a remainder is left.
RECURSIVE FDivLoop(_, _, _)
FDivLoop(R, P, Q) ==
    IF BBitLen(Q) = 56 THEN <<Q, R # <<>>>>
    ELSE IF BLess(R, P) THEN FDivLoop(BShl(R, 1), P, BShl(Q, 1))
    ELSE FDivLoop(BShl(BSub(R, P), 1), P, BMulSmallC(Q, 2, 1))

\* The double nearest to D / P (D, P > 0): 56 quotient bits and a sticky
\* bit, for D and P brought to P <= D < 2 * P by a power of two 2^t.
FDivRound(qs, t) ==
    FRoundBig(BMulSmallC(qs[1], 2, IF qs[2] THEN 1 ELSE 0), t - 56)
FDivScaled(D, P, t) ==
    IF BLess(D, P) THEN FDivRound(FDivLoop(BShl(D, 1), P, <<>>), t - 1)
    ELSE FDivRound(FDivLoop(D, P, <<>>), t)
FDivAligned(D, P, t) ==
    FDivScaled(IF t < 0 THEN BShl(D, 0 - t) ELSE D,
               IF t > 0 THEN BShl(P, t) ELSE P, t)
FDiv(D, P) ==
    IF D = <<>> THEN FZero ELSE FDivAligned(D, P, BBitLen(D) - BBitLen(P))

\* float(val_str) for val_str matching [0-9]*\.?[0-9]+ : the double nearest
\* to the decimal number.
float_at(val_str, p) ==
    IF p > Len(val_str) THEN FRoundBig(BFromDigits(val_str), 0)
    ELSE FDiv(BFromDigits(SubSeq(val_str, 1, p - 1) \o SubSeq(val_str, p + 1, Len(val_str))),
              BPow10(Len(val_str) - p))
float(val_str) ==
    float_at(val_str,
             IF \E i \in 1..Len(val_str) : val_str[i] = "."
             THEN CHOOSE i \in 1..Len(val_str) : val_str[i] = "."
             ELSE Len(val_str) + 1)

\* f"{x:.12f}": the exact value of x rounded to 12 fractional digits, ties
\* to even, as text.
Ten12 == BPow10(12)
Format12Round(N, s) ==
    IF s <= 0 THEN BShl(N, 0 - s)
    ELSE IF BBit(N, s - 1) = 1 /\ (~BLowZero(N, s - 1) \/ BBit(N, s) = 1)
    THEN BAdd(BShr(N, s), <<1>>)
    ELSE BShr(N, s)
Format12Text(d) ==
    IF Len(d) < 13
    THEN <<"0", ".">> \o [i \in 1..(12 - Len(d)) |-> "0"] \o d
    ELSE SubSeq(d, 1, Len(d) - 12) \o <<".">> \o SubSeq(d, Len(d) - 11, Len(d))
Format12(x) == Format12Text(BToDigits(Format12Round(BMul(x[1], Ten12), 0 - x[2])))

\* ------------------------------------------------------------------ names
\* A name is the sequence of its characters.

\* int(s) for a non-empty string of decimal digits.
RECURSIVE StrToInt(_)
StrToInt(s) ==
    IF Len(s) = 0 THEN 0
    ELSE 10 * StrToInt(SubSeq(s, 1, Len(s) - 1)) + DigitVal(s[Len(s)])

\* The characters of names in code-point order (what sorted() compares).
CodePoints == <<"0", "1", "2", "3", "4", "5", "6", "7", "8", "9",
                "[", "]", "_",
                "a", "b", "c", "d", "e", "f", "g", "h", "i", "j", "k", "l",
                "m", "n", "o", "p", "q", "r", "s", "t", "u", "v", "w", "x",
                "y", "z">>
Ord(c) == CHOOSE i \in 1..Len(CodePoints) : CodePoints[i] = c

\* a < b on Python strings.
StrLess(a, b) ==
    \E i \in 1..(Len(a) + 1) :
        /\ i <= Len(b)
        /\ \A j \in 1..(i - 1) : a[j] = b[j]
        /\ (i > Len(a) \/ Ord(a[i]) < Ord(b[i]))

\* sorted(S) for a set of strings.
RECURSIVE sorted(_)
sorted(S) ==
    IF S = {} THEN <<>>
    ELSE LET m == CHOOSE m \in S : \A o \in S \ {m} : StrLess(m, o)
         IN  <<m>> \o sorted(S \ {m})

\* RE_BUSBIT = ^(.+)\[(\d+)\]$ : <<base, idx>>, or <<>> when no match.
RE_BUSBIT(n) ==
    LET len == Len(n)
        ps == {p \in 2..(len - 2) :
                  /\ n[p] = "["
                  /\ \A i \in (p + 1)..(len - 1) : IsDigit(n[i])}
    IN  IF len < 4 \/ n[len] # "]" \/ ps = {} THEN <<>>
        ELSE LET p == CHOOSE p \in ps : TRUE
             IN  <<SubSeq(n, 1, p - 1), StrToInt(SubSeq(n, p + 1, len - 1))>>

\* RE_BUSNAME = ^(.+)\[(\d+):(\d+)\]$ : <<base, msb_str, lsb_str>>, or <<>>.
RE_BUSNAME(n) ==
    LET len == Len(n)
        AllDigits(a, b) == a <= b /\ \A i \in a..b : IsDigit(n[i])
        pq == {x \in (2..len) \X (2..len) :
                  /\ n[x[1]] = "[" /\ n[x[2]] = ":"
                  /\ AllDigits(x[1] + 1, x[2] - 1)
                  /\ AllDigits(x[2] + 1, len - 1)}
    IN  IF len < 6 \/ n[len] # "]" \/ pq = {} THEN <<>>
        ELSE LET x == CHOOSE x \in pq : TRUE
             IN  <<SubSeq(n, 1, x[1] - 1), SubSeq(n, x[1] + 1, x[2] - 1),
                   SubSeq(n, x[2] + 1, len - 1)>>

\* str(i) for i >= 0.
RECURSIVE IntToStr(_)
IntToStr(i) ==
    IF i < 10 THEN <<Digits[i + 1]>>
    ELSE IntToStr(i \div 10) \o <<Digits[(i % 10) + 1]>>

\* ------------------------------------------------ viewer-configuration file
Whitespace == {" ", "\t"}

\* s.strip()
RECURSIVE lstrip(_)
lstrip(s) == IF s # <<>> /\ Head(s) \in Whitespace THEN lstrip(Tail(s)) ELSE s
RECURSIVE rstrip(_)
rstrip(s) ==
    IF s # <<>> /\ s[Len(s)] \in Whitespace
    THEN rstrip(SubSeq(s, 1, Len(s) - 1)) ELSE s
strip(s) == rstrip(lstrip(s))

\* s.split()[0] for a stripped, non-empty s.
split_first(s) ==
    LET ws == {i \in 1..Len(s) : s[i] \in Whitespace}
    IN  IF ws = {} THEN s
        ELSE SubSeq(s, 1, (CHOOSE i \in ws : \A j \in ws : i <= j) - 1)

\* full.split('.')[-1]
split_leaf(full) ==
    LET ds == {i \in 1..Len(full) : full[i] = "."}
    IN  IF ds = {} THEN full
        ELSE SubSeq(full, (CHOOSE i \in ds : \A j \in ds : j <= i) + 1, Len(full))

\* f"{base}[{i}]"
bit_name(base, i) == base \o <<"[">> \o IntToStr(i) \o <<"]">>

\* The names one kept line offers, in order: the bits of range(msb, lsb - 1,
\* -1) or range(msb, lsb + 1) for a bus leaf, else the leaf itself.
gtkw_line_names(s) ==
    LET leaf == split_leaf(split_first(s))
        m_bus == RE_BUSNAME(leaf)
    IN  IF m_bus = <<>> THEN <<leaf>>
        ELSE LET msb == StrToInt(m_bus[2])
                 lsb == StrToInt(m_bus[3])
             IN  IF msb >= lsb
                 THEN [k \in 1..(msb - lsb + 1) |-> bit_name(m_bus[1], msb - (k - 1))]
                 ELSE [k \in 1..(lsb - msb + 1) |-> bit_name(m_bus[1], msb + (k - 1))]

\* signals.append(name) for every offered name not in seen.
RECURSIVE append_unseen(_, _)
append_unseen(signals, names) ==
    IF names = <<>> THEN signals
    ELSE append_unseen(
             IF \E i \in 1..Len(signals) : signals[i] = Head(names)
             THEN signals ELSE Append(signals, Head(names)),
             Tail(names))

\* Mutant of parse_gtkw_lines: the names are inserted at the front.
RECURSIVE parse_gtkw_lines_reversed(_, _)
parse_gtkw_lines_reversed(text, signals) ==
    IF text = <<>> THEN signals
    ELSE LET s == strip(Head(text))
         IN  parse_gtkw_lines_reversed(Tail(text),
                 IF s = <<>> \/ s[1] \in {"[", "*", "@", "#", ";", "-"}
                 THEN signals
                 ELSE append_unseen(<<>>, gtkw_line_names(s) \o signals))

\* The loop "for line in f" of parse_gtkw_signals.
RECURSIVE parse_gtkw_lines(_, _)
parse_gtkw_lines(text, signals) ==
    IF text = <<>> THEN signals
    ELSE LET s == strip(Head(text))
         IN  parse_gtkw_lines(Tail(text),
                 IF s = <<>> \/ s[1] \in {"[", "*", "@", "#", ";", "-"}
                 THEN signals
                 ELSE append_unseen(signals, gtkw_line_names(s)))

\* parse_gtkw_signals(gtkw_path): a file that cannot be opened gives [].
parse_gtkw_signals(gtkw) ==
    IF ~gtkw.readable THEN <<>> ELSE parse_gtkw_lines(gtkw.text, <<>>)

\* ------------------------------------------------------- time arguments
\* unit.lower() on the letters a unit can hold.
unit_lower(u) ==
    [i \in 1..Len(u) |->
        CASE u[i] = "F" -> "f" [] u[i] = "P" -> "p" [] u[i] = "N" -> "n"
          [] u[i] = "U" -> "u" [] u[i] = "M" -> "m" [] u[i] = "K" -> "k"
          [] u[i] = "S" -> "s" [] OTHER -> u[i]]

\* UNIT_TO_PS: the doubles of the literals 1e-3, 1.0, 1e3, 1e6, 1e9, 1e12.
UNIT_TO_PS ==
    [fs |-> FDiv(<<1>>, BPow10(3)),
     ps |-> FFromInt(1),
     ns |-> FFromInt(1000),
     us |-> FFromInt(1000000),
     ms |-> FFromInt(1000000000),
     s |-> FRoundBig(BPow10(12), 0)]

\* The literal 1e-12 of "ts_ps * 1e-12" and "value * UNIT_TO_PS[unit] * 1e-12".
SecondsPerPs == FDiv(<<1>>, BPow10(12))

\* RE_TSPEC = ^\s*([0-9]*\.?[0-9]+)\s*([fpnumk]?s)?\s*$ (ignoring case):
\* <<val_str, unit>> (unit <<>> when absent), or <<>> when no match.
RE_TSPEC(spec) ==
    LET s == strip(spec)
        nonnum == {i \in 1..Len(s) : ~(IsDigit(s[i]) \/ s[i] = ".")}
        n == IF nonnum = {} THEN Len(s)
             ELSE (CHOOSE i \in nonnum : \A j \in nonnum : i <= j) - 1
        val_str == SubSeq(s, 1, n)
        dots == {i \in 1..n : s[i] = "."}
        unit == lstrip(SubSeq(s, n + 1, Len(s)))
        unit_ok == \/ unit = <<>>
                   \/ Len(unit) = 1 /\ unit_lower(unit) = <<"s">>
                   \/ /\ Len(unit) = 2
                      /\ unit_lower(unit)[2] = "s"
                      /\ unit_lower(unit)[1] \in {"f", "p", "n", "u", "m", "k"}
    IN  IF n >= 1 /\ IsDigit(s[n]) /\ Cardinality(dots) <= 1
           /\ (dots = {} \/ \A i \in dots : \A j \in (i + 1)..n : IsDigit(s[j]))
           /\ unit_ok
        THEN <<val_str, unit>>
        ELSE <<>>

\* The key of UNIT_TO_PS a lower-case unit names ("": not a key).
unit_key(u) ==
    CASE u = <<"f", "s">> -> "fs" [] u = <<"p", "s">> -> "ps"
      [] u = <<"n", "s">> -> "ns" [] u = <<"u", "s">> -> "us"
      [] u = <<"m", "s">> -> "ms" [] u = <<"s">> -> "s"
      [] OTHER -> ""

\* RE_TS = ^(\s*)(\d+)\s*([fpnumk]?s)\s*$ (ignoring case):
\* <<factor_str, unit>>, or <<>> when no match.
RE_TS_unit(s, n, unit) ==
    IF /\ n >= 1
       /\ \/ Len(unit) = 1 /\ unit_lower(unit) = <<"s">>
          \/ /\ Len(unit) = 2
             /\ unit_lower(unit)[2] = "s"
             /\ unit_lower(unit)[1] \in {"f", "p", "n", "u", "m", "k"}
    THEN <<SubSeq(s, 1, n), unit>>
    ELSE <<>>

RE_TS_digits(s, n) == RE_TS_unit(s, n, lstrip(SubSeq(s, n + 1, Len(s))))

RE_TS_stripped(s) ==
    RE_TS_digits(s, Cardinality({i \in 1..Len(s) : \A j \in 1..i : IsDigit(s[j])}))

RE_TS(line) == RE_TS_stripped(strip(line))

\* The lines "$timescale" and "$end", stripped.
TIMESCALE == <<"$", "t", "i", "m", "e", "s", "c", "a", "l", "e">>
END == <<"$", "e", "n", "d">>

\* factor * UNIT_TO_PS[unit]: the int factor times the double of the unit.
ts_factor(factor_str, unit) ==
    FMul(FRoundBig(BFromDigits(factor_str), 0), UNIT_TO_PS[unit])

\* The loop of parse_timescale from line i on, with in_ts and ts_factor_ps
\* as the earlier lines left them; `break` ends it with the factor so far.
RECURSIVE parse_timescale_loop(_, _, _, _)
parse_timescale_step(lines, i, in_ts, ts_factor_ps, line_stripped, m) ==
    IF line_stripped = TIMESCALE
    THEN parse_timescale_loop(lines, i + 1, TRUE, ts_factor_ps)
    ELSE IF ~in_ts
    THEN parse_timescale_loop(lines, i + 1, FALSE, ts_factor_ps)
    ELSE IF m # <<>> /\ unit_key(unit_lower(m[2])) \notin DOMAIN UNIT_TO_PS
    THEN ts_factor_ps
    ELSE IF line_stripped = END
    THEN ts_factor_ps
    ELSE parse_timescale_loop(lines, i + 1, TRUE,
             IF m = <<>> THEN ts_factor_ps
             ELSE ts_factor(m[1], unit_key(unit_lower(m[2]))))

parse_timescale_loop(lines, i, in_ts, ts_factor_ps) ==
    IF i > Len(lines) THEN ts_factor_ps
    ELSE parse_timescale_step(lines, i, in_ts, ts_factor_ps,
                              strip(lines[i]), RE_TS(lines[i]))

\* parse_timescale(lines): picoseconds per tick as a double, 1.0 unless a
\* time-scale block says otherwise; ts_sec = ts_ps * 1e-12.
parse_timescale(lines) == parse_timescale_loop(lines, 1, FALSE, FFromInt(1))
TsSec(lines) == FMul(parse_timescale(lines), SecondsPerPs)

\* parse_time_with_units after the match: [exit, seconds].  A value without
\* unit is in seconds; a unit that is no key of UNIT_TO_PS ends the run.
tspec_unit_seconds(val_str, unit) ==
    IF unit \notin DOMAIN UNIT_TO_PS
    THEN [exit |-> TRUE, seconds |-> NoneF]
    ELSE [exit |-> FALSE,
          seconds |-> FMul(FMul(float(val_str), UNIT_TO_PS[unit]), SecondsPerPs)]

tspec_seconds(m) ==
    IF m = <<>> THEN [exit |-> TRUE, seconds |-> NoneF]
    ELSE IF m[2] = <<>>
    THEN [exit |-> FALSE, seconds |-> float(m[1])]
    ELSE tspec_unit_seconds(m[1], unit_key(unit_lower(m[2])))

\* parse_time_with_units(spec, opt_name) on the option's text: [exit, seconds]
\* (<<>>: spec is None, which gives None).
parse_time_with_units(spec) ==
    IF spec = NoneF THEN [exit |-> FALSE, seconds |-> NoneF]
    ELSE tspec_seconds(RE_TSPEC(spec))

\* --------------------------------------------------------------- main
\* The --gtkw option: not given, or a path and what the file holds.
NoGtkw == [given |-> FALSE, readable |-> FALSE, text |-> <<>>]

\* Mutant of main_signals: an explicit list goes before the file.
main_signals_list_first(gtkw, signal) ==
    IF signal # <<>> THEN signal
    ELSE IF gtkw.given THEN parse_gtkw_signals(gtkw) ELSE <<>>

\* The list main hands to vcd_to_csv as wanted_signals (<<>>: None).
main_signals(gtkw, signal) ==
    LET signals == IF gtkw.given THEN parse_gtkw_signals(gtkw) ELSE <<>>
    IN  IF signals = <<>> /\ signal # <<>> THEN signal ELSE signals

\* ----------------------------------------------------------- header parse
\* A declaration is what parse_var_line returns: width, sid, ref and rng
\* (<<msb, lsb>> for a range token "[msb:lsb]", <<>> for none).

\* Mutant of scalar_name2id: a later declaration of a name overwrites.
scalar_name2id_last_wins(decls) ==
    LET idx(ref) == {i \in 1..Len(decls) : decls[i].width = 1 /\ decls[i].ref = ref}
        last(ref) == CHOOSE i \in idx(ref) : \A j \in idx(ref) : j <= i
    IN  [ref \in {decls[i].ref : i \in {j \in 1..Len(decls) : decls[j].width = 1}}
            |-> decls[last(ref)].sid]

\* scalar_name2id: every width-1 name, mapped to the identifier of its first
\* declaration (dict.setdefault).
scalar_name2id(decls) ==
    LET idx(ref) == {i \in 1..Len(decls) : decls[i].width = 1 /\ decls[i].ref = ref}
        first(ref) == CHOOSE i \in idx(ref) : \A j \in idx(ref) : i <= j
    IN  [ref \in {decls[i].ref : i \in {j \in 1..Len(decls) : decls[j].width = 1}}
            |-> decls[first(ref)].sid]

\* One bus_defs[sid] = (ref, base, msb, lsb, width) assignment: a dict keeps
\* the position of a key's first insertion and the value of its last.
BusDefOf(v) ==
    [sid |-> v.sid, base |-> v.ref, width |-> v.width,
     msb |-> IF v.rng # <<>> THEN v.rng[1] ELSE v.width - 1,
     lsb |-> IF v.rng # <<>> THEN v.rng[2] ELSE 0]

RECURSIVE bus_defs(_)
bus_defs(decls) ==
    IF Len(decls) = 0 THEN <<>>
    ELSE LET rest == bus_defs(SubSeq(decls, 1, Len(decls) - 1))
             v == decls[Len(decls)]
         IN  IF v.width = 1 THEN rest
             ELSE IF \E i \in 1..Len(rest) : rest[i].sid = v.sid
             THEN [i \in 1..Len(rest) |->
                      IF rest[i].sid = v.sid THEN BusDefOf(v) ELSE rest[i]]
             ELSE Append(rest, BusDefOf(v))

\* --------------------------------------------------------- signal selection
\* The bus definition a requested name resolves to: the first one, in dict
\* order, with the base name and a range containing the index (0: none).
BusBitMatches_any_index(bd, m) == bd.base = m[1]

BusBitMatches(bd, m) ==
    /\ bd.base = m[1]
    /\ \/ (bd.msb >= bd.lsb /\ bd.lsb <= m[2] /\ m[2] <= bd.msb)
       \/ (bd.msb < bd.lsb /\ bd.msb <= m[2] /\ m[2] <= bd.lsb)

ResolveBusBit(defs, n) ==
    LET m == RE_BUSBIT(n)
        hits == IF m = <<>> THEN {}
                ELSE {i \in 1..Len(defs) : BusBitMatches(defs[i], m)}
    IN  IF hits = {} THEN 0 ELSE CHOOSE i \in hits : \A j \in hits : i <= j

\* Mutant of bit_offset: the position is counted from the last character.
bit_offset_from_lsb(bd, idx) == IF bd.msb >= bd.lsb THEN idx - bd.lsb ELSE bd.lsb - idx

\* Position of the bit in a b<...> payload, counted from its first character.
bit_offset(bd, idx) == IF bd.msb >= bd.lsb THEN bd.msb - idx ELSE idx - bd.msb

\* The tables vcd_to_csv builds before it opens the output file.
select_tables(n2id, defs, wanted, ignore_missing) ==
    LET IsScalar(n) == n \in DOMAIN n2id
        IsBit(n) == ~IsScalar(n) /\ ResolveBusBit(defs, n) # 0
        IsMissing(n) == ~IsScalar(n) /\ ~IsBit(n)
        missing == SelectSeq(wanted, IsMissing)
        Effective(n) == IsScalar(n) \/ IsBit(n)
        signals == IF wanted # <<>> THEN SelectSeq(wanted, Effective)
                   ELSE sorted(DOMAIN n2id)
        selected == IF wanted # <<>> THEN SelectSeq(wanted, IsScalar)
                    ELSE signals
        sids == {n2id[selected[i]] : i \in 1..Len(selected)}
        bits == SelectSeq(wanted, IsBit)
        BitEntry(n) == LET bd == defs[ResolveBusBit(defs, n)]
                       IN  [name |-> n, sid |-> bd.sid,
                            offset |-> bit_offset(bd, RE_BUSBIT(n)[2]),
                            width |-> bd.width]
        entries == [i \in 1..Len(bits) |-> BitEntry(bits[i])]
        bsids == {entries[i].sid : i \in 1..Len(entries)}
    IN  [exit |-> \/ (DOMAIN n2id = {} /\ defs = <<>>)
                  \/ (wanted # <<>> /\ ~ignore_missing /\ missing # <<>>)
                  \/ (wanted # <<>> /\ signals = <<>>),
         signals |-> signals,
         scalar_sid_to_names |->
             [sid \in sids |->
                 LET Has(n) == n2id[n] = sid IN SelectSeq(selected, Has)],
         busid_to_bits |->
             [sid \in bsids |->
                 LET Has(e) == e.sid = sid IN SelectSeq(entries, Has)]]

Select(decls, wanted, ignore_missing) ==
    select_tables(scalar_name2id(decls), bus_defs(decls), wanted, ignore_missing)

\* ------------------------------------------------------------- sanitizing
Lower(c) == CASE c = "X" -> "x" [] c = "Z" -> "z" [] OTHER -> c

\* Mutants of sanitize_bit: z left unresolved; z treated like x.
sanitize_bit_keeps_z(val, prev) ==
    LET v == Lower(val)
    IN  IF v \in {"0", "1", "z"} THEN v
        ELSE IF prev \in {"0", "1"} THEN prev
        ELSE "1"

sanitize_bit_z_as_x(val, prev) ==
    LET v == Lower(val)
    IN  IF v \in {"0", "1"} THEN v
        ELSE IF prev \in {"0", "1"} THEN prev
        ELSE "1"

\* sanitize_bit(val, prev): 0/1 as is, z -> 1, x -> previous value or 1.
sanitize_bit(val, prev) ==
    LET v == Lower(val)
    IN  IF v \in {"0", "1"} THEN v
        ELSE IF v = "z" THEN "1"
        ELSE IF prev \in {"0", "1"} THEN prev
        ELSE "1"

\* bits.rjust(width, pad_char)
rjust(bits, width, pad_char) ==
    IF Len(bits) >= width THEN bits
    ELSE [i \in 1..(width - Len(bits)) |-> pad_char] \o bits

\* The raw bit a vector payload gives the column at `offset` of a bus of
\* `width` bits.
raw_bit(bits, offset, width) ==
    LET pad_char == IF Lower(bits[1]) \in {"x", "z"} THEN bits[1] ELSE "0"
        bits_p == rjust(bits, width, pad_char)
    IN  IF offset >= Len(bits_p) THEN "x" ELSE bits_p[offset + 1]

\* -------------------------------------------------------------- the state
VARIABLES
    args,                \* the command line: [gtkw, signal, tmin, tmax,
                         \*   uniform_step, vcd_readable, csv_writable]
    vcd,                 \* the input file: [ts, decls, whole, body]
    wanted_signals,      \* the requested names (<<>>: None)
    ignore_missing,
    ts_sec,              \* seconds per tick
    tmin, tmax,          \* bounds in seconds (NoneF: None)
    uniform_step,        \* step in seconds (NoneF: event mode)
    signals,             \* the output columns, in order
    scalar_sid_to_names,
    busid_to_bits,
    lines,               \* the body lines read so far
    cur_vals,            \* column -> "0"/"1"
    cur_time_ticks,
    changed_at_time,     \* event mode
    stop,                \* event mode
    last_time_sec,       \* uniform mode
    next_sample_time,    \* uniform mode (NoneF: grid not anchored yet)
    csv,                 \* the output file: [opened, header]
    out,                 \* the data rows written
    pc                   \* "main", "run", "done" (returned), "exit" (sys.exit(1))

config == <<args, vcd, wanted_signals, ignore_missing, ts_sec, tmin, tmax,
            uniform_step, signals, scalar_sid_to_names, busid_to_bits, csv>>
vars == <<args, vcd, wanted_signals, ignore_missing, ts_sec, tmin, tmax,
          uniform_step, signals, scalar_sid_to_names, busid_to_bits, csv,
          lines, cur_vals, cur_time_ticks, changed_at_time, stop,
          last_time_sec, next_sample_time, out, pc>>

\* out.write("Time[s]," + ",".join(signals) + "\n"): the cells of the line.
TimeHeader == <<"T", "i", "m", "e", "[", "s", "]">>
csv_header(sigs) == [opened |-> TRUE, header |-> <<TimeHeader>> \o sigs]
csv_untouched == [opened |-> FALSE, header |-> <<>>]

\* One data row: the formatted time and the columns' values in order.
Row(t, vals) == [t |-> Format12(t),
                 vals |-> [i \in 1..Len(signals) |-> vals[signals[i]]]]

\* ---------------------------------------------------- the lines of the file
\* The input file is the lines vcd.ts, one $var line for each declaration
\* of vcd.decls, the $enddefinitions line, and the body.  A body line is
\* kept as what the main loop makes of it: a time marker, a scalar change, a
\* vector change, or the text of a line the loop passes over.
TimeLine(n) == [kind |-> "time", ticks |-> n]
ScalarLine(val, sid) == [kind |-> "scalar", val |-> val, sid |-> sid]
VectorLine(bits, sid) == [kind |-> "vector", bits |-> bits, sid |-> sid]
SkipLine(text) == [kind |-> "skip", text |-> text]

\* The text of a body line.
LineText(l) ==
    CASE l.kind = "time" -> <<"#">> \o IntToStr(l.ticks)
      [] l.kind = "scalar" -> <<l.val>> \o l.sid
      [] l.kind = "vector" -> <<"b">> \o l.bits \o <<" ">> \o l.sid
      [] OTHER -> l.text

\* The text of the $var line parse_var_line reads a declaration from.
VarWire == <<"$", "v", "a", "r", " ", "w", "i", "r", "e", " ">>
DeclText(d) ==
    VarWire \o IntToStr(d.width) \o <<" ">> \o d.sid \o <<" ">> \o d.ref
        \o (IF d.rng = <<>> THEN <<>>
            ELSE <<" ", "[">> \o IntToStr(d.rng[1]) \o <<":">>
                     \o IntToStr(d.rng[2]) \o <<"]">>)
        \o <<" ">> \o END

EndDefinitions ==
    <<"$", "e", "n", "d", "d", "e", "f", "i", "n", "i", "t", "i", "o", "n", "s",
      " ">> \o END

\* lines = f.read().splitlines() for the file v with the body ls.
FileLines(v, ls) ==
    v.ts \o [i \in 1..Len(v.decls) |-> DeclText(v.decls[i])]
         \o <<EndDefinitions>> \o [i \in 1..Len(ls) |-> LineText(ls[i])]

\* RE_TIME = ^#(\d+)\s*$, RE_SCALAR = ^([01xXzZ])(\S+)\s*$ and
\* RE_VECTOR = ^[bB]([01xXzZ]+)\s+(\S+)\s*$ on a line without trailing blanks:
\* whether the line matches.
ValueChars == {"0", "1", "x", "X", "z", "Z"}

RE_TIME(line) ==
    /\ Len(line) >= 2 /\ line[1] = "#"
    /\ \A i \in 2..Len(line) : IsDigit(line[i])

RE_SCALAR(line) ==
    /\ Len(line) >= 2 /\ line[1] \in ValueChars
    /\ \A i \in 2..Len(line) : line[i] \notin Whitespace

RE_VECTOR(line) ==
    /\ Len(line) >= 4 /\ line[1] \in {"b", "B"}
    /\ \E p \in 3..(Len(line) - 1) : \E q \in (p + 1)..Len(line) :
          /\ \A i \in 2..(p - 1) : line[i] \in ValueChars
          /\ \A i \in p..(q - 1) : line[i] \in Whitespace
          /\ \A i \in q..Len(line) : line[i] \notin Whitespace

\* The branch of the main loop an rstripped body line takes.
line_branch(line) ==
    IF line = <<>> THEN "skip"
    ELSE IF RE_TIME(line) THEN "time"
    ELSE IF line[1] \in {"$", "#"} THEN "skip"
    ELSE IF RE_SCALAR(line) THEN "scalar"
    ELSE IF RE_VECTOR(line) THEN "vector"
    ELSE "skip"

line_kind(text) == line_branch(rstrip(text))

\* A line parse_timescale passes over whatever came before it.
ts_inert(text) ==
    IF strip(text) = TIMESCALE THEN FALSE
    ELSE IF strip(text) = END THEN FALSE
    ELSE RE_TS(text) = <<>>

\* The main loop reads l as its next body line.  A file given as a whole
\* (vcd.whole) has its body in vcd.body; else the body is any sequence of
\* lines that leave parse_timescale(lines) at what the header alone gives.
NextLineIs(l) ==
    IF vcd.whole
    THEN IF Len(lines) < Len(vcd.body) THEN vcd.body[Len(lines) + 1] = l ELSE FALSE
    ELSE IF ts_inert(LineText(l)) THEN TRUE
    ELSE parse_timescale(FileLines(vcd, Append(lines, l)))
             = parse_timescale(FileLines(vcd, lines))

\* The loop "for raw_line in lines" has no line left.
EndOfFile == IF vcd.whole THEN Len(lines) = Len(vcd.body) ELSE TRUE

Running(m) == /\ pc = "run"
              /\ (uniform_step = NoneF) = (m = "event")

\* ------------------------------------------------------------------ main
\* args.x -> parse_time_with_units(args.x) if args.x else None
time_option(text) ==
    IF text = <<>> THEN [exit |-> FALSE, seconds |-> NoneF]
    ELSE parse_time_with_units(text)

\* The three time options, parsed in the order main parses them: the first
\* that does not parse ends the run, and the later ones are never parsed.
time_options_c(a, b, c) ==
    [exit |-> c.exit,
     tmin |-> a.seconds,
     tmax |-> IF a.exit THEN NoneF ELSE b.seconds,
     uniform_step |-> IF b.exit THEN NoneF ELSE c.seconds]

time_options_b(a, b, step_text) ==
    time_options_c(a, b, IF b.exit THEN b ELSE time_option(step_text))

time_options_a(a, tmax_text, step_text) ==
    time_options_b(a, IF a.exit THEN a ELSE time_option(tmax_text), step_text)

time_options(tmin_text, tmax_text, step_text) ==
    time_options_a(time_option(tmin_text), tmax_text, step_text)

\* Mutant of vcd_to_csv_start: the output file is opened before the selection
\* is checked.
vcd_to_csv_opens_first(w, t, read, sel) ==
    [wanted_signals |-> w,
     tmin |-> t.tmin,
     tmax |-> t.tmax,
     uniform_step |-> t.uniform_step,
     ts_sec |-> IF read THEN TsSec(FileLines(vcd, vcd.body)) ELSE NoneF,
     signals |-> IF read THEN sel.signals ELSE <<>>,
     scalar_sid_to_names |-> IF read THEN sel.scalar_sid_to_names ELSE <<>>,
     busid_to_bits |-> IF read THEN sel.busid_to_bits ELSE <<>>,
     cur_vals |-> IF read /\ ~sel.exit
                  THEN [n \in {sel.signals[i] : i \in 1..Len(sel.signals)} |-> "1"]
                  ELSE <<>>,
     csv |-> IF read /\ args.csv_writable
             THEN csv_header(sel.signals) ELSE csv_untouched,
     pc |-> IF read /\ ~sel.exit /\ args.csv_writable THEN "run" ELSE "exit"]

main_call_opens_first(w, t) ==
    vcd_to_csv_opens_first(w, t, ~t.exit /\ args.vcd_readable,
                           Select(vcd.decls, w, ignore_missing))

\* vcd_to_csv up to the CSV header line, for the wanted names w and the time
\* options t: what it leaves in the variables.  The input is read when main
\* got as far as the call and the file can be opened; the time scale is
\* parsed from all the lines of the file; the output is opened when the
\* selection did not exit, and the header line is written when the output
\* could be opened.
vcd_to_csv_start(w, t, read, sel) ==
    [wanted_signals |-> w,
     tmin |-> t.tmin,
     tmax |-> t.tmax,
     uniform_step |-> t.uniform_step,
     ts_sec |-> IF read THEN TsSec(FileLines(vcd, vcd.body)) ELSE NoneF,
     signals |-> IF read THEN sel.signals ELSE <<>>,
     scalar_sid_to_names |-> IF read THEN sel.scalar_sid_to_names ELSE <<>>,
     busid_to_bits |-> IF read THEN sel.busid_to_bits ELSE <<>>,
     cur_vals |-> IF read /\ ~sel.exit
                  THEN [n \in {sel.signals[i] : i \in 1..Len(sel.signals)} |-> "1"]
                  ELSE <<>>,
     csv |-> IF read /\ ~sel.exit /\ args.csv_writable
             THEN csv_header(sel.signals) ELSE csv_untouched,
     pc |-> IF read /\ ~sel.exit /\ args.csv_writable THEN "run" ELSE "exit"]

main_call(w, t) ==
    vcd_to_csv_start(w, t, ~t.exit /\ args.vcd_readable,
                     Select(vcd.decls, w, ignore_missing))

\* The variables main and the start of vcd_to_csv set, after the step.
Started(s) ==
    /\ wanted_signals' = s.wanted_signals
    /\ tmin' = s.tmin
    /\ tmax' = s.tmax
    /\ uniform_step' = s.uniform_step
    /\ ts_sec' = s.ts_sec
    /\ signals' = s.signals
    /\ scalar_sid_to_names' = s.scalar_sid_to_names
    /\ busid_to_bits' = s.busid_to_bits
    /\ cur_vals' = s.cur_vals
    /\ csv' = s.csv
    /\ pc' = s.pc

\* Mutant of Main: the output file is opened before the selection is checked.
Main_opens_first ==
    /\ pc = "main"
    /\ Started(main_call_opens_first(
                   main_signals(args.gtkw, args.signal),
                   time_options(args.tmin, args.tmax, args.uniform_step)))
    /\ UNCHANGED <<args, vcd, ignore_missing, lines, cur_time_ticks,
                   changed_at_time, stop, last_time_sec, next_sample_time, out>>

\* main, and vcd_to_csv up to the CSV header line: the selection source,
\* the time options, the header parse, the column selection, the output
\* file.  Every sys.exit(1) on the way ends in pc = "exit".
Main ==
    /\ pc = "main"
    /\ Started(main_call(main_signals(args.gtkw, args.signal),
                         time_options(args.tmin, args.tmax, args.uniform_step)))
    /\ UNCHANGED <<args, vcd, ignore_missing, lines, cur_time_ticks,
                   changed_at_time, stop, last_time_sec, next_sample_time, out>>

\* State before main runs: the command line and the files it names.
InitMain(Args, Vcds, Ignore) ==
    /\ args \in Args
    /\ vcd \in Vcds
    /\ ignore_missing \in Ignore
    /\ wanted_signals = <<>> /\ signals = <<>>
    /\ ts_sec = NoneF /\ tmin = NoneF /\ tmax = NoneF /\ uniform_step = NoneF
    /\ scalar_sid_to_names = <<>> /\ busid_to_bits = <<>>
    /\ csv = csv_untouched
    /\ lines = <<>> /\ cur_vals = <<>>
    /\ cur_time_ticks = None
    /\ changed_at_time = FALSE
    /\ stop = FALSE
    /\ last_time_sec = NoneF
    /\ next_sample_time = NoneF
    /\ out = <<>>
    /\ pc = "main"

\* The variables main and the start of vcd_to_csv set, as a first state.
StartedWith(s) ==
    /\ wanted_signals = s.wanted_signals
    /\ tmin = s.tmin
    /\ tmax = s.tmax
    /\ uniform_step = s.uniform_step
    /\ ts_sec = s.ts_sec
    /\ signals = s.signals
    /\ scalar_sid_to_names = s.scalar_sid_to_names
    /\ busid_to_bits = s.busid_to_bits
    /\ cur_vals = s.cur_vals
    /\ csv = s.csv
    /\ pc = s.pc

\* State when the main pass starts (or the run has ended before it): main
\* has run on a command line without --gtkw, with the names of Wanted as
\* --signal and the texts of Tmins, Tmaxs and Steps as time options.
InitWith(Vcds, Wanted, Ignore, Tmins, Tmaxs, Steps, Writable) ==
    /\ vcd \in Vcds
    /\ ignore_missing \in Ignore
    /\ args \in [gtkw : {NoGtkw}, signal : Wanted, tmin : Tmins, tmax : Tmaxs,
                 uniform_step : Steps, vcd_readable : {TRUE},
                 csv_writable : Writable]
    /\ StartedWith(main_call(main_signals(args.gtkw, args.signal),
                             time_options(args.tmin, args.tmax,
                                          args.uniform_step)))
    /\ lines = <<>>
    /\ cur_time_ticks = None
    /\ changed_at_time = FALSE
    /\ stop = FALSE
    /\ last_time_sec = NoneF
    /\ next_sample_time = NoneF
    /\ out = <<>>

\* ----------------------------------------------------------- event mode
\* Mutant of flush_if_needed: a row is written whether or not a value changed.
flush_if_needed_always ==
    IF cur_time_ticks = None
    THEN [ret |-> FALSE, changed |-> changed_at_time, out |-> out]
    ELSE LET t_sec == FMulInt(cur_time_ticks, ts_sec)
         IN  IF tmin # NoneF /\ FLess(t_sec, tmin)
             THEN [ret |-> FALSE, changed |-> FALSE, out |-> out]
             ELSE IF tmax # NoneF /\ FLess(tmax, t_sec)
             THEN [ret |-> TRUE, changed |-> changed_at_time, out |-> out]
             ELSE [ret |-> FALSE, changed |-> FALSE,
                   out |-> Append(out, Row(t_sec, cur_vals))]

\* Mutant of flush_if_needed: tmin is not looked at.
flush_if_needed_ignores_tmin ==
    IF cur_time_ticks = None \/ ~changed_at_time
    THEN [ret |-> FALSE, changed |-> changed_at_time, out |-> out]
    ELSE LET t_sec == FMulInt(cur_time_ticks, ts_sec)
         IN  IF tmax # NoneF /\ FLess(tmax, t_sec)
             THEN [ret |-> TRUE, changed |-> changed_at_time, out |-> out]
             ELSE [ret |-> FALSE, changed |-> FALSE,
                   out |-> Append(out, Row(t_sec, cur_vals))]

\* flush_if_needed(): [ret, changed_at_time, out].
flush_if_needed ==
    IF cur_time_ticks = None \/ ~changed_at_time
    THEN [ret |-> FALSE, changed |-> changed_at_time, out |-> out]
    ELSE LET t_sec == FMulInt(cur_time_ticks, ts_sec)
         IN  IF tmin # NoneF /\ FLess(t_sec, tmin)
             THEN [ret |-> FALSE, changed |-> FALSE, out |-> out]
             ELSE IF tmax # NoneF /\ FLess(tmax, t_sec)
             THEN [ret |-> TRUE, changed |-> changed_at_time, out |-> out]
             ELSE [ret |-> FALSE, changed |-> FALSE,
                   out |-> Append(out, Row(t_sec, cur_vals))]

\* Mutant of ev_scalar_update: the flag is armed by every event.
RECURSIVE ev_scalar_update_always_arms(_, _, _)
ev_scalar_update_always_arms(names, val, st) ==
    IF names = <<>> THEN st
    ELSE LET name == Head(names)
             prev == st.vals[name]
             new == sanitize_bit(val, prev)
         IN  ev_scalar_update_always_arms(Tail(names), val,
                 [vals |-> [st.vals EXCEPT ![name] = new], changed |-> TRUE])

\* for name in scalar_sid_to_names[sid]: ... (event mode)
RECURSIVE ev_scalar_update(_, _, _)
ev_scalar_update(names, val, st) ==
    IF names = <<>> THEN st
    ELSE LET name == Head(names)
             prev == st.vals[name]
             new == sanitize_bit(val, prev)
         IN  ev_scalar_update(Tail(names), val,
                 IF new # prev
                 THEN [vals |-> [st.vals EXCEPT ![name] = new], changed |-> TRUE]
                 ELSE st)

\* for bit_name, offset, width in busid_to_bits[sid]: ... (event mode)
RECURSIVE ev_vector_update(_, _, _)
ev_vector_update(entries, bits, st) ==
    IF entries = <<>> THEN st
    ELSE LET e == Head(entries)
             prev == IF e.name \in DOMAIN st.vals THEN st.vals[e.name] ELSE "1"
             new == sanitize_bit(raw_bit(bits, e.offset, e.width), prev)
         IN  ev_vector_update(Tail(entries), bits,
                 IF new # prev
                 THEN [vals |-> [n \in DOMAIN st.vals \cup {e.name} |->
                                    IF n = e.name THEN new ELSE st.vals[n]],
                       changed |-> TRUE]
                 ELSE st)

EvTimeMarker(n) ==
    /\ Running("event")
    /\ NextLineIs(TimeLine(n))
    /\ lines' = Append(lines, TimeLine(n))
    /\ LET f == flush_if_needed
       IN  /\ out' = f.out
           /\ changed_at_time' = f.changed
           /\ IF f.ret
              THEN stop' = TRUE /\ pc' = "done" /\ UNCHANGED cur_time_ticks
              ELSE cur_time_ticks' = n /\ UNCHANGED <<stop, pc>>
    /\ UNCHANGED <<config, cur_vals, last_time_sec, next_sample_time>>

\* Mutant of EvScalar: an event of an identifier without column arms the flag.
EvScalar_arms_unmapped(val, sid) ==
    /\ Running("event")
    /\ NextLineIs(ScalarLine(val, sid))
    /\ lines' = Append(lines, ScalarLine(val, sid))
    /\ LET st == IF sid \notin DOMAIN scalar_sid_to_names
                 THEN [vals |-> cur_vals, changed |-> TRUE]
                 ELSE ev_scalar_update(scalar_sid_to_names[sid], val,
                          [vals |-> cur_vals, changed |-> changed_at_time])
       IN  cur_vals' = st.vals /\ changed_at_time' = st.changed
    /\ UNCHANGED <<config, cur_time_ticks, stop, last_time_sec,
                   next_sample_time, out, pc>>

EvScalar(val, sid) ==
    /\ Running("event")
    /\ NextLineIs(ScalarLine(val, sid))
    /\ lines' = Append(lines, ScalarLine(val, sid))
    /\ LET st == IF sid \notin DOMAIN scalar_sid_to_names
                 THEN [vals |-> cur_vals, changed |-> changed_at_time]
                 ELSE ev_scalar_update(scalar_sid_to_names[sid], val,
                          [vals |-> cur_vals, changed |-> changed_at_time])
       IN  cur_vals' = st.vals /\ changed_at_time' = st.changed
    /\ UNCHANGED <<config, cur_time_ticks, stop, last_time_sec,
                   next_sample_time, out, pc>>

EvVector(bits, sid) ==
    /\ Running("event")
    /\ NextLineIs(VectorLine(bits, sid))
    /\ lines' = Append(lines, VectorLine(bits, sid))
    /\ LET st == IF sid \notin DOMAIN busid_to_bits
                 THEN [vals |-> cur_vals, changed |-> changed_at_time]
                 ELSE ev_vector_update(busid_to_bits[sid], bits,
                          [vals |-> cur_vals, changed |-> changed_at_time])
       IN  cur_vals' = st.vals /\ changed_at_time' = st.changed
    /\ UNCHANGED <<config, cur_time_ticks, stop, last_time_sec,
                   next_sample_time, out, pc>>

\* A line the loop passes over: blank, starting with $ or # without being a
\* time marker, or matching none of the patterns.
EvSkip(text) ==
    /\ Running("event")
    /\ line_kind(text) = "skip"
    /\ NextLineIs(SkipLine(text))
    /\ lines' = Append(lines, SkipLine(text))
    /\ UNCHANGED <<config, cur_vals, cur_time_ticks, changed_at_time, stop,
                   last_time_sec, next_sample_time, out, pc>>

\* End of the file: if not stop: flush_if_needed().
EvEnd ==
    /\ pc = "run" /\ uniform_step = NoneF
    /\ EndOfFile
    /\ LET f == flush_if_needed
       IN  out' = f.out /\ changed_at_time' = f.changed
    /\ pc' = "done"
    /\ UNCHANGED <<config, lines, cur_vals, cur_time_ticks, stop,
                   last_time_sec, next_sample_time>>

\* --------------------------------------------------------- uniform mode
\* The while loop of emit_uniform_between: [nst, out].
RECURSIVE emit_loop(_, _, _)
emit_loop(nst, o, t_to) ==
    IF FLess(nst, t_to) /\ (tmax = NoneF \/ FLeq(nst, tmax))
    THEN emit_loop(FAdd(nst, uniform_step), Append(o, Row(nst, cur_vals)), t_to)
    ELSE [nst |-> nst, out |-> o]

\* Mutant of emit_uniform_between: the grid is anchored anew at every interval.
emit_uniform_between_reanchors(t_from, t_to) ==
    IF tmax # NoneF /\ FLess(tmax, t_from)
    THEN [nst |-> next_sample_time, out |-> out]
    ELSE LET start == IF tmin # NoneF /\ FLess(t_from, tmin) THEN tmin ELSE t_from
         IN  emit_loop(start, out, t_to)

\* emit_uniform_between(t_from, t_to): [nst, out].
emit_uniform_between(t_from, t_to) ==
    IF tmax # NoneF /\ FLess(tmax, t_from)
    THEN [nst |-> next_sample_time, out |-> out]
    ELSE LET start == IF tmin # NoneF /\ FLess(t_from, tmin) THEN tmin ELSE t_from
             nst == IF next_sample_time = NoneF THEN start ELSE next_sample_time
         IN  emit_loop(nst, out, t_to)

\* Mutant of uni_scalar_update: only a change to 0 is stored.
RECURSIVE uni_scalar_update_only_falls(_, _, _)
uni_scalar_update_only_falls(names, val, vals) ==
    IF names = <<>> THEN vals
    ELSE LET name == Head(names)
             prev == vals[name]
             new == sanitize_bit(val, prev)
         IN  uni_scalar_update_only_falls(Tail(names), val,
                 IF new # prev /\ new = "0" THEN [vals EXCEPT ![name] = new] ELSE vals)

\* for name in scalar_sid_to_names[sid]: ... (uniform mode)
RECURSIVE uni_scalar_update(_, _, _)
uni_scalar_update(names, val, vals) ==
    IF names = <<>> THEN vals
    ELSE LET name == Head(names)
             prev == vals[name]
             new == sanitize_bit(val, prev)
         IN  uni_scalar_update(Tail(names), val,
                 IF new # prev THEN [vals EXCEPT ![name] = new] ELSE vals)

\* Mutant of uni_vector_update: the offset is counted from the right end.
RECURSIVE uni_vector_update_from_lsb(_, _, _)
uni_vector_update_from_lsb(entries, bits, vals) ==
    IF entries = <<>> THEN vals
    ELSE LET e == Head(entries)
             prev == IF e.name \in DOMAIN vals THEN vals[e.name] ELSE "1"
             new == sanitize_bit(raw_bit(bits, e.width - 1 - e.offset, e.width),
                                 prev)
         IN  uni_vector_update_from_lsb(Tail(entries), bits,
                 IF new # prev
                 THEN [n \in DOMAIN vals \cup {e.name} |->
                          IF n = e.name THEN new ELSE vals[n]]
                 ELSE vals)

\* for bit_name, offset, width in busid_to_bits[sid]: ... (uniform mode)
RECURSIVE uni_vector_update(_, _, _)
uni_vector_update(entries, bits, vals) ==
    IF entries = <<>> THEN vals
    ELSE LET e == Head(entries)
             prev == IF e.name \in DOMAIN vals THEN vals[e.name] ELSE "1"
             new == sanitize_bit(raw_bit(bits, e.offset, e.width), prev)
         IN  uni_vector_update(Tail(entries), bits,
                 IF new # prev
                 THEN [n \in DOMAIN vals \cup {e.name} |->
                          IF n = e.name THEN new ELSE vals[n]]
                 ELSE vals)

UniTimeMarker(n) ==
    /\ Running("uniform")
    /\ NextLineIs(TimeLine(n))
    /\ lines' = Append(lines, TimeLine(n))
    /\ LET new_sec == FMulInt(n, ts_sec)
       IN  /\ IF cur_time_ticks = None
              THEN UNCHANGED <<next_sample_time, out>>
              ELSE LET e == emit_uniform_between(last_time_sec, new_sec)
                   IN  next_sample_time' = e.nst /\ out' = e.out
           /\ cur_time_ticks' = n
           /\ last_time_sec' = new_sec
    /\ UNCHANGED <<config, cur_vals, changed_at_time, stop, pc>>

UniScalar(val, sid) ==
    /\ Running("uniform")
    /\ NextLineIs(ScalarLine(val, sid))
    /\ lines' = Append(lines, ScalarLine(val, sid))
    /\ cur_vals' = IF sid \notin DOMAIN scalar_sid_to_names THEN cur_vals
                   ELSE uni_scalar_update(scalar_sid_to_names[sid], val, cur_vals)
    /\ UNCHANGED <<config, cur_time_ticks, changed_at_time, stop,
                   last_time_sec, next_sample_time, out, pc>>

UniVector(bits, sid) ==
    /\ Running("uniform")
    /\ NextLineIs(VectorLine(bits, sid))
    /\ lines' = Append(lines, VectorLine(bits, sid))
    /\ cur_vals' = IF sid \notin DOMAIN busid_to_bits THEN cur_vals
                   ELSE uni_vector_update(busid_to_bits[sid], bits, cur_vals)
    /\ UNCHANGED <<config, cur_time_ticks, changed_at_time, stop,
                   last_time_sec, next_sample_time, out, pc>>

UniSkip(text) ==
    /\ Running("uniform")
    /\ line_kind(text) = "skip"
    /\ NextLineIs(SkipLine(text))
    /\ lines' = Append(lines, SkipLine(text))
    /\ UNCHANGED <<config, cur_vals, cur_time_ticks, changed_at_time, stop,
                   last_time_sec, next_sample_time, out, pc>>

\* End of the file: the final emission up to the last time, or to tmax.
UniEnd ==
    /\ pc = "run" /\ uniform_step # NoneF
    /\ EndOfFile
    /\ IF cur_time_ticks # None /\ last_time_sec # NoneF
       THEN LET end_sec == IF tmax # NoneF /\ FLess(last_time_sec, tmax)
                           THEN tmax ELSE last_time_sec
                e == emit_uniform_between(last_time_sec, end_sec)
            IN  next_sample_time' = e.nst /\ out' = e.out
       ELSE UNCHANGED <<next_sample_time, out>>
    /\ pc' = "done"
    /\ UNCHANGED <<config, lines, cur_vals, cur_time_ticks, changed_at_time,
                   stop, last_time_sec>>

\* ------------------------------------- uniform mode, the loop step by step
\* The same handlers with the while loop of emit_uniform_between followed
\* one iteration at a time, so that a loop that does not end is a behaviour
\* of the model: pc = "emit" inside the call made at a time marker,
\* pc = "emit_end" inside the final call.

\* emit_uniform_between(t_from, ...) before its loop: whether the loop is
\* reached, and next_sample_time when it is.
emit_begin(t_from) ==
    IF tmax # NoneF /\ FLess(tmax, t_from)
    THEN [enter |-> FALSE, nst |-> next_sample_time]
    ELSE [enter |-> TRUE,
          nst |-> IF next_sample_time # NoneF THEN next_sample_time
                  ELSE IF tmin # NoneF /\ FLess(t_from, tmin) THEN tmin
                  ELSE t_from]

\* t_to of the call in progress.
emit_t_to ==
    IF pc = "emit" THEN FMulInt(lines[Len(lines)].ticks, ts_sec)
    ELSE IF tmax # NoneF /\ FLess(last_time_sec, tmax) THEN tmax
    ELSE last_time_sec

\* The condition of the while loop.
emit_condition(t_to) ==
    /\ FLess(next_sample_time, t_to)
    /\ IF tmax = NoneF THEN TRUE ELSE FLeq(next_sample_time, tmax)

\* A time marker, up to the loop of its emit_uniform_between call.
UniMarkerBegin(n) ==
    /\ Running("uniform")
    /\ NextLineIs(TimeLine(n))
    /\ lines' = Append(lines, TimeLine(n))
    /\ IF cur_time_ticks = None \/ ~emit_begin(last_time_sec).enter
       THEN /\ cur_time_ticks' = n
            /\ last_time_sec' = FMulInt(n, ts_sec)
            /\ UNCHANGED <<next_sample_time, pc>>
       ELSE /\ next_sample_time' = emit_begin(last_time_sec).nst
            /\ pc' = "emit"
            /\ UNCHANGED <<cur_time_ticks, last_time_sec>>
    /\ UNCHANGED <<config, cur_vals, changed_at_time, stop, out>>

\* The end of the file, up to the loop of the final call.
UniEndBegin ==
    /\ pc = "run" /\ uniform_step # NoneF
    /\ EndOfFile
    /\ IF cur_time_ticks # None /\ emit_begin(last_time_sec).enter
       THEN next_sample_time' = emit_begin(last_time_sec).nst /\ pc' = "emit_end"
       ELSE pc' = "done" /\ UNCHANGED next_sample_time
    /\ UNCHANGED <<config, lines, cur_vals, cur_time_ticks, changed_at_time,
                   stop, last_time_sec, out>>

\* One iteration of the loop: a row, and next_sample_time += uniform_step.
EmitIteration ==
    /\ pc \in {"emit", "emit_end"}
    /\ emit_condition(emit_t_to)
    /\ Len(out) < MaxRows
    /\ out' = Append(out, Row(next_sample_time, cur_vals))
    /\ next_sample_time' = FAdd(next_sample_time, uniform_step)
    /\ UNCHANGED <<config, lines, cur_vals, cur_time_ticks, changed_at_time,
                   stop, last_time_sec, pc>>

\* The loop ends: the marker's handler stores the new time, the final call
\* ends the run.
EmitReturn ==
    /\ pc \in {"emit", "emit_end"}
    /\ ~emit_condition(emit_t_to)
    /\ IF pc = "emit"
       THEN /\ cur_time_ticks' = lines[Len(lines)].ticks
            /\ last_time_sec' = emit_t_to
            /\ pc' = "run"
       ELSE pc' = "done" /\ UNCHANGED <<cur_time_ticks, last_time_sec>>
    /\ UNCHANGED <<config, lines, cur_vals, changed_at_time, stop,
                   next_sample_time, out>>

\* ------------------------------------------------------- inputs of a run
clk == <<"c", "l", "k">>
data == <<"d", "a", "t", "a">>
data_1 == <<"d", "a", "t", "a", "[", "1", "]">>
data_0 == <<"d", "a", "t", "a", "[", "0", "]">>

\* The texts of the time options: not given, "1ns", "2ns", "3ns", "4ns",
\* "1us", "12us".
NoOption == <<>>
Text1ns == <<"1", "n", "s">>
Text2ns == <<"2", "n", "s">>
Text3ns == <<"3", "n", "s">>
Text4ns == <<"4", "n", "s">>
Text1us == <<"1", "u", "s">>
Text12us == <<"1", "2", "u", "s">>

\* A blank line of the body.
BlankLine == <<>>

\* A file with the header lines ts and the declarations decls, its body
\* left open; the same with the body given.
Vcd(ts, decls) == [ts |-> ts, decls |-> decls, whole |-> FALSE, body |-> <<>>]
WholeVcd(ts, decls, body) ==
    [ts |-> ts, decls |-> decls, whole |-> TRUE, body |-> body]

\* The lines "$timescale", "1ns", "$end".
Ts1ns == <<TIMESCALE, Text1ns, END>>

\* $timescale 1ns $end (on three lines); $var wire 1 ! clk;
\* $var wire 2 " data [1:0]
ClkDataVcd ==
    Vcd(Ts1ns, <<[width |-> 1, sid |-> <<"!">>, ref |-> clk, rng |-> <<>>],
                 [width |-> 2, sid |-> <<"\"">>, ref |-> data, rng |-> <<1, 0>>]>>)

RawVals == {"0", "1", "x", "X", "z", "Z"}

\* ------------------------------------------------------ specifications
\* The value path, both modes, no time bounds: every raw value as a scalar,
\* payloads shorter than the bus and as wide as it.
SanPayloads == [1..2 -> {"0", "1", "x", "Z"}] \cup {<<"X">>, <<"z">>, <<"1">>}

InitSan ==
    InitWith({ClkDataVcd}, {<<clk, data_1, data_0>>}, {FALSE},
             {NoOption}, {NoOption}, {NoOption, Text1ns}, {TRUE})

NextSan ==
    \/ /\ Len(lines) < SanLines
       /\ \/ \E n \in 0..1 : EvTimeMarker(n) \/ UniTimeMarker(n)
          \/ \E v \in RawVals : EvScalar(v, <<"!">>) \/ UniScalar(v, <<"!">>)
          \/ \E b \in SanPayloads : EvVector(b, <<"\"">>) \/ UniVector(b, <<"\"">>)
    \/ EvEnd
    \/ UniEnd

SpecSan == InitSan /\ [][NextSan]_vars

\* Event mode with --tmin/--tmax.
EvPayloads == {<<"1", "0">>, <<"0">>}

InitEv ==
    \/ InitWith({ClkDataVcd}, {<<clk, data_1, data_0>>}, {FALSE},
                {NoOption}, {NoOption, Text2ns, Text3ns}, {NoOption}, {TRUE})
    \/ InitWith({ClkDataVcd}, {<<clk, data_1, data_0>>}, {FALSE},
                {Text2ns}, {NoOption, Text3ns}, {NoOption}, {TRUE})

NextEv ==
    \/ /\ Len(lines) < MaxLines
       /\ \/ \E n \in 0..EvMaxTick : EvTimeMarker(n)
          \/ \E v \in {"0", "1", "x"} : EvScalar(v, <<"!">>)
          \/ \E b \in EvPayloads : EvVector(b, <<"\"">>)
          \/ EvSkip(BlankLine)
    \/ EvEnd

SpecEv == InitEv /\ [][NextEv]_vars

\* The scenario of the documentation: default selection, event mode, no
\* bounds, and logs made of the scenario's five lines.
InitScenario ==
    InitWith({ClkDataVcd}, {<<>>}, {FALSE}, {NoOption}, {NoOption}, {NoOption},
             {TRUE})

NextScenario ==
    \/ /\ Len(lines) < ScenarioLines
       /\ \/ \E n \in {0, 5} : EvTimeMarker(n)
          \/ \E v \in {"0", "1"} : EvScalar(v, <<"!">>)
          \/ EvVector(<<"1", "0">>, <<"\"">>)
    \/ EvEnd

SpecScenario == InitScenario /\ [][NextScenario]_vars

\* Uniform-grid mode: a step of 3 ns with --tmin/--tmax, a step of 1 ns
\* without.
UniTicks == {0, 2, 3, 6, 9}

InitUni ==
    \/ InitWith({ClkDataVcd}, {<<clk, data_1, data_0>>}, {FALSE},
                {NoOption, Text2ns}, {NoOption, Text4ns}, {Text3ns}, {TRUE})
    \/ InitWith({ClkDataVcd}, {<<clk, data_1, data_0>>}, {FALSE},
                {NoOption}, {NoOption}, {Text1ns}, {TRUE})

NextUni ==
    \/ /\ Len(lines) < MaxLines
       /\ \/ \E n \in UniTicks : UniTimeMarker(n)
          \/ \E v \in {"0", "1"} : UniScalar(v, <<"!">>)
          \/ UniVector(<<"1", "0">>, <<"\"">>)
          \/ UniSkip(BlankLine)
    \/ UniEnd

SpecUni == InitUni /\ [][NextUni]_vars

\* Uniform mode with an upper bound on the grid (step 1 ns, anchor 0 or 2 ns).
InitUniMax ==
    InitWith({ClkDataVcd}, {<<clk, data_1, data_0>>}, {FALSE},
             {NoOption}, {Text2ns, Text3ns}, {Text1ns}, {TRUE})

SpecUniMax == InitUniMax /\ [][NextUni]_vars

\* main with a viewer-configuration file of up to MaxGtkwLines lines and an
\* explicit list, on the clk/data header.
GtkwLines ==
    {<<"t", "o", "p", ".", "c", "l", "k">>,
     <<"t", "o", "p", ".", "d", "a", "t", "a", "[", "1", ":", "0", "]", " ", "x">>,
     <<"d", "a", "t", "a", "[", "0", ":", "1", "]">>,
     <<"*", "c">>,
     <<" ", "c", "l", "k">>,
     <<>>,
     <<"u", ".", "d", "a", "t", "a", "[", "1", "]">>}

GtkwTexts == UNION {[1..n -> GtkwLines] : n \in 0..MaxGtkwLines}

GtkwOptions ==
    {NoGtkw, [given |-> TRUE, readable |-> FALSE, text |-> <<>>]}
        \cup {[given |-> TRUE, readable |-> TRUE, text |-> t] : t \in GtkwTexts}

SignalOptions == {<<>>, <<clk>>, <<data_0, clk>>}

InitGtkw ==
    InitMain([gtkw : GtkwOptions, signal : SignalOptions, tmin : {<<>>},
              tmax : {<<>>}, uniform_step : {<<>>}, vcd_readable : {TRUE},
              csv_writable : {TRUE}],
             {ClkDataVcd}, {FALSE})

NextGtkw == Main \/ EvEnd

SpecGtkw == InitGtkw /\ [][NextGtkw]_vars

\* The selection: headers of up to MaxDecls declarations (an aliased name,
\* a shared identifier, buses written descending, ascending and without a
\* range), explicit lists of up to MaxWanted names, a VCD file that can or
\* cannot be read, an output file that can or cannot be opened.
rst == <<"r", "s", "t">>
data_3 == <<"d", "a", "t", "a", "[", "3", "]">>
nope == <<"n", "o", "p", "e">>

SelDecls ==
    {[width |-> 1, sid |-> <<"!">>, ref |-> clk, rng |-> <<>>],
     [width |-> 1, sid |-> <<"#">>, ref |-> clk, rng |-> <<>>],
     [width |-> 1, sid |-> <<"!">>, ref |-> rst, rng |-> <<>>],
     [width |-> 8, sid |-> <<"\"">>, ref |-> data, rng |-> <<7, 0>>],
     [width |-> 4, sid |-> <<"\"">>, ref |-> data, rng |-> <<0, 3>>],
     [width |-> 2, sid |-> <<"$">>, ref |-> data, rng |-> <<>>]}

SelVcds ==
    {Vcd(Ts1ns, d) : d \in UNION {[1..n -> SelDecls] : n \in 0..MaxDecls}}

SelWanted == UNION {[1..n -> {clk, rst, data_3, nope}] : n \in 0..MaxWanted}

InitSel ==
    InitMain([gtkw : {NoGtkw}, signal : SelWanted, tmin : {<<>>},
              tmax : {<<>>}, uniform_step : {<<>>}, vcd_readable : BOOLEAN,
              csv_writable : BOOLEAN],
             SelVcds, BOOLEAN)

NextSel == Main \/ EvEnd

SpecSel == InitSel /\ [][NextSel]_vars

\* Vector payloads shorter than, as wide as and longer than the 2-bit bus,
\* both modes, no time bounds.
VecPayloads ==
    UNION {[1..n -> {"0", "1"}] : n \in 1..MaxPayload}
        \cup {<<"x">>, <<"z", "1">>}

InitVec ==
    InitWith({ClkDataVcd}, {<<data_1, data_0>>}, {FALSE},
             {NoOption}, {NoOption}, {NoOption, Text1ns}, {TRUE})

NextVec ==
    \/ /\ Len(lines) < VecLines
       /\ \/ \E n \in 0..1 : EvTimeMarker(n)
          \/ \E n \in 0..1 : UniTimeMarker(n)
          \/ \E b \in VecPayloads : EvVector(b, <<"\"">>)
          \/ \E b \in VecPayloads : UniVector(b, <<"\"">>)
    \/ EvEnd
    \/ UniEnd

SpecVec == InitVec /\ [][NextVec]_vars

\* Aliased scalars: clk declared twice with different identifiers (in either
\* order), rst sharing the identifier "!"; both modes, no time bounds.
AliasVcds ==
    {Vcd(Ts1ns, <<[width |-> 1, sid |-> <<"!">>, ref |-> clk, rng |-> <<>>],
                  [width |-> 1, sid |-> <<"#">>, ref |-> clk, rng |-> <<>>],
                  [width |-> 1, sid |-> <<"!">>, ref |-> rst, rng |-> <<>>]>>),
     Vcd(Ts1ns, <<[width |-> 1, sid |-> <<"#">>, ref |-> clk, rng |-> <<>>],
                  [width |-> 1, sid |-> <<"!">>, ref |-> clk, rng |-> <<>>],
                  [width |-> 1, sid |-> <<"!">>, ref |-> rst, rng |-> <<>>]>>)}

InitAlias ==
    InitWith(AliasVcds, {<<>>, <<rst, clk>>}, {FALSE},
             {NoOption}, {NoOption}, {NoOption, Text1ns}, {TRUE})

NextAlias ==
    \/ /\ Len(lines) < AliasLines
       /\ \/ \E n \in 0..1 : EvTimeMarker(n)
          \/ \E n \in 0..1 : UniTimeMarker(n)
          \/ \E v \in {"0", "1"}, sid \in {<<"!">>, <<"#">>} : EvScalar(v, sid)
          \/ \E v \in {"0", "1"}, sid \in {<<"!">>, <<"#">>} : UniScalar(v, sid)
    \/ EvEnd
    \/ UniEnd

SpecAlias == InitAlias /\ [][NextAlias]_vars

\* The time options: the documented forms, forms with blanks and capitals,
\* a fraction without integer part, and malformed ones.
TimeTexts ==
    {<<>>,
     <<"1", "0", "n", "s">>,
     <<"2", ".", "5", "u", "s">>,
     <<"1", "e", "-", "6">>,
     <<"0">>,
     <<"5", "k", "s">>,
     <<"1", "0", " ", "N", "S">>,
     <<"n", "s">>,
     <<"1", ".">>,
     <<".", "5", "n", "s">>,
     <<" ", "2", "n", "s", " ">>,
     <<"0", ".", "0">>,
     <<"3", "p", "s">>}

InitTime ==
    InitMain([gtkw : {NoGtkw}, signal : {<<>>}, tmin : TimeTexts,
              tmax : {<<>>, <<"3", "n", "s">>, <<"1", "e", "-", "6">>},
              uniform_step : {<<>>, <<"1", "n", "s">>}, vcd_readable : {TRUE},
              csv_writable : {TRUE}],
             {ClkDataVcd}, {FALSE})

NextTime == Main \/ EvEnd \/ UniEnd

SpecTime == InitTime /\ [][NextTime]_vars

\* Both modes.
\* Both modes on selections that leave clk, the bus or one of its bits
\* without column, with events of the two declared identifiers and of "#",
\* which no declaration names.
FrameSids == {<<"!">>, <<"\"">>, <<"#">>}

InitFrame ==
    InitWith({ClkDataVcd}, {<<clk>>, <<data_1>>, <<clk, data_0>>}, {FALSE},
             {NoOption}, {NoOption}, {NoOption, Text1ns}, {TRUE})

NextFrame ==
    \/ /\ Len(lines) < FrameLines
       /\ \/ \E n \in 0..1 : EvTimeMarker(n) \/ UniTimeMarker(n)
          \/ \E v \in {"0", "x"}, sid \in FrameSids :
                 EvScalar(v, sid) \/ UniScalar(v, sid)
          \/ \E b \in {<<"0", "0">>, <<"0", "1">>}, sid \in FrameSids :
                 EvVector(b, sid) \/ UniVector(b, sid)
    \/ EvEnd
    \/ UniEnd

SpecFrame == InitFrame /\ [][NextFrame]_vars

\* Event mode on files whose lines before the clk declaration are any
\* MaxTsLines of: "$timescale", "1ns", " 2NS ", "2 us", "1ks", "ns", "$end",
\* the body left open; and on files given as a whole, with up to WholeTsLines
\* such lines before the declaration and a body of up to TsBodyLines lines
\* of: "#1", "0!", "1ns" (a change of the identifier ns), " 10 ns",
\* "$timescale", "$end".
TsTexts ==
    {TIMESCALE, Text1ns, <<" ", "2", "N", "S", " ">>, <<"2", " ", "u", "s">>,
     <<"1", "k", "s">>, <<"n", "s">>, END}

ClkDecl == [width |-> 1, sid |-> <<"!">>, ref |-> clk, rng |-> <<>>]

TsSkipTexts == {<<" ", "1", "0", " ", "n", "s">>, TIMESCALE, END}

TsBodies ==
    UNION {[1..n -> {TimeLine(1), ScalarLine("0", <<"!">>),
                     ScalarLine("1", <<"n", "s">>)}
                        \cup {SkipLine(t) : t \in TsSkipTexts}] :
              n \in 0..TsBodyLines}

TsVcds ==
    {Vcd(t, <<ClkDecl>>) : t \in UNION {[1..n -> TsTexts] : n \in 0..MaxTsLines}}
        \cup {WholeVcd(t, <<ClkDecl>>, b) :
                 t \in UNION {[1..n -> TsTexts] : n \in 0..WholeTsLines},
                 b \in TsBodies}

InitTs ==
    InitWith(TsVcds, {<<>>}, {FALSE}, {NoOption}, {NoOption}, {NoOption}, {TRUE})

NextTs ==
    \/ /\ Len(lines) < TsBodyLines
       /\ \/ EvTimeMarker(1)
          \/ EvScalar("0", <<"!">>)
          \/ EvScalar("1", <<"n", "s">>)
          \/ \E t \in TsSkipTexts : EvSkip(t)
    \/ EvEnd

SpecTs == InitTs /\ [][NextTs]_vars

\* main on headers of up to MaxDecls declarations among clk, the bus
\* data[1:0], a bus named bus[1:0] with the identifier of data, and a bus
\* data[3:2] with an identifier of its own.
bus == <<"b", "u", "s">>
bus_1 == <<"b", "u", "s", "[", "1", "]">>

BusDecls ==
    {[width |-> 1, sid |-> <<"!">>, ref |-> clk, rng |-> <<>>],
     [width |-> 2, sid |-> <<"\"">>, ref |-> data, rng |-> <<1, 0>>],
     [width |-> 2, sid |-> <<"\"">>, ref |-> bus, rng |-> <<1, 0>>],
     [width |-> 2, sid |-> <<"$">>, ref |-> data, rng |-> <<3, 2>>]}

BusVcds ==
    {Vcd(Ts1ns, d) : d \in UNION {[1..n -> BusDecls] : n \in 0..MaxDecls}}

BusWanted == UNION {[1..n -> {clk, data_1, data_3, bus_1}] : n \in 0..MaxWanted}

InitBus ==
    InitMain([gtkw : {NoGtkw}, signal : BusWanted, tmin : {<<>>},
              tmax : {<<>>}, uniform_step : {<<>>}, vcd_readable : {TRUE},
              csv_writable : {TRUE}],
             BusVcds, BOOLEAN)

NextBus == Main \/ EvEnd

SpecBus == InitBus /\ [][NextBus]_vars

\* main with --uniform-step 0 or 1ns, with and without --tmax 1ns, then the
\* uniform pass with its emission loop one iteration at a time.
InitStep ==
    InitMain([gtkw : {NoGtkw}, signal : {<<>>}, tmin : {<<>>},
              tmax : {<<>>, <<"1", "n", "s">>},
              uniform_step : {<<"0">>, <<"1", "n", "s">>},
              vcd_readable : {TRUE},
              csv_writable : {TRUE}],
             {ClkDataVcd}, {FALSE})

NextStep ==
    \/ Main
    \/ /\ Len(lines) < StepLines
       /\ \/ \E n \in 0..2 : UniMarkerBegin(n)
          \/ UniScalar("0", <<"!">>)
    \/ UniEndBegin
    \/ EmitIteration
    \/ EmitReturn

SpecStep == InitStep /\ [][NextStep]_vars

\* vcd_to_csv called with a time scale of 1us and a step of 1us or of
\* 2^-71 s, with and without tmax = 12us; the emission loop one iteration
\* at a time.  The step 2^-71 s is the double of the text
\* 0.0000000000000000000004235164736271502 (a value in seconds).
Ts1us == <<TIMESCALE, Text1us, END>>

ClkVcd1us == Vcd(Ts1us, <<ClkDecl>>)

TinyStepText ==
    <<"0", ".">> \o [i \in 1..21 |-> "0"]
        \o <<"4", "2", "3", "5", "1", "6", "4", "7",
              "3", "6", "2", "7", "1", "5", "0", "2">>

FineTicks == {10, 11, 12}

InitFine ==
    InitWith({ClkVcd1us}, {<<clk>>}, {FALSE}, {NoOption}, {NoOption, Text12us},
             {Text1us, TinyStepText}, {TRUE})

NextFine ==
    \/ /\ Len(lines) < StepLines
       /\ \/ \E n \in FineTicks : UniMarkerBegin(n)
          \/ UniScalar("0", <<"!">>)
    \/ UniEndBegin
    \/ EmitIteration
    \/ EmitReturn

SpecFine == InitFine /\ [][NextFine]_vars

Init == InitEv \/ InitUni
Next == NextEv \/ NextUni
Spec == Init /\ [][Next]_vars

\* ------------------------------------------------- reading the log back
\* The columns an event line is mapped to, with the raw bit each receives.
Targets(l) ==
    IF l.kind = "scalar" /\ l.sid \in DOMAIN scalar_sid_to_names
    THEN {<<scalar_sid_to_names[l.sid][i], l.val>> :
             i \in 1..Len(scalar_sid_to_names[l.sid])}
    ELSE IF l.kind = "vector" /\ l.sid \in DOMAIN busid_to_bits
    THEN {<<busid_to_bits[l.sid][i].name,
            raw_bit(l.bits, busid_to_bits[l.sid][i].offset,
                    busid_to_bits[l.sid][i].width)>> :
             i \in 1..Len(busid_to_bits[l.sid])}
    ELSE {}

Columns == {signals[i] : i \in 1..Len(signals)}

\* The documented rule: 0/1 as is, z -> 1, x -> the previous clean value.
RuleResolve(raw, prev) ==
    CASE raw \in {"0", "1"} -> raw
      [] raw \in {"z", "Z"} -> "1"
      [] raw \in {"x", "X"} -> prev

\* The value of column c after the events among ls, every column starting
\* at the idle value 1.
RECURSIVE RuleValue(_, _)
RuleValue(c, ls) ==
    IF ls = <<>> THEN "1"
    ELSE LET before == RuleValue(c, SubSeq(ls, 1, Len(ls) - 1))
             hit == {t \in Targets(ls[Len(ls)]) : t[1] = c}
         IN  IF hit = {} THEN before
             ELSE RuleResolve((CHOOSE t \in hit : TRUE)[2], before)

RuleVals(ls) == [i \in 1..Len(signals) |-> RuleValue(signals[i], ls)]

\* The column has been the target of an event among ls.
Observed(c, ls) == \E i \in 1..Len(ls) : \E t \in Targets(ls[i]) : t[1] = c

\* The tick in force at line i: that of the last time marker before it.
TickAt(ls, i) ==
    LET ms == {j \in 1..(i - 1) : ls[j].kind = "time"}
    IN  IF ms = {} THEN None ELSE ls[CHOOSE j \in ms : \A q \in ms : q <= j].ticks

\* The lines whose event changes the value of some column.
ChangeLines(ls) ==
    {i \in 1..Len(ls) :
        RuleVals(SubSeq(ls, 1, i)) # RuleVals(SubSeq(ls, 1, i - 1))}

\* The ticks of the markers, in order of appearance, never decrease.
NonDecreasing(ls) ==
    \A i, j \in 1..Len(ls) :
        (i < j /\ ls[i].kind = "time" /\ ls[j].kind = "time")
            => ls[i].ticks <= ls[j].ticks

\* The picoseconds a time of the CSV stands for: its text, printed with 12
\* fractional digits, read without the point; and the text of n picoseconds.
Ps(text) == StrToInt(SelectSeq(text, IsDigit))
PsText(n) ==
    <<"0", ".">> \o [i \in 1..(12 - Len(IntToStr(n))) |-> "0"] \o IntToStr(n)

\* A time bound or step as the CSV would print it, in picoseconds.
Nominal(x) == Ps(Format12(x))

\* Picoseconds per tick, and the time of tick T as the CSV prints it.
Scale == Nominal(ts_sec)
TickTime(T) == T * Scale

LastLine == lines[Len(lines)]
Mode == IF uniform_step = NoneF THEN "event" ELSE "uniform"

\* ------------------------------------------------------------- claim C1
\* C1: in both modes, after any sequence of scalar and vector events, every
\* column's current value is "0" or "1", and so is every value of every row
\* written.
C1_ValuesAreBits ==
    /\ \A c \in DOMAIN cur_vals : cur_vals[c] \in {"0", "1"}
    /\ \A k \in 1..Len(out) : \A i \in 1..Len(out[k].vals) :
           out[k].vals[i] \in {"0", "1"}

\* A row was written after an x scalar and a payload holding z or Z.
C1_Witness ==
    /\ Len(out) >= 1
    /\ \E i, j \in 1..Len(lines) :
          /\ lines[i].kind = "scalar" /\ lines[i].val \in {"x", "X"}
          /\ lines[j].kind = "vector"
          /\ \E q \in 1..Len(lines[j].bits) : lines[j].bits[q] \in {"z", "Z"}

\* ------------------------------------------------------------- claim C2
\* C2: every event resolves its raw bit by the rule: 0 and 1 pass through,
\* z/Z gives 1 whatever the history, x/X gives the column's previous value,
\* and 1 when the column has had no event before.
C2_Resolved(c, raw) ==
    cur_vals'[c] = CASE raw \in {"0", "1"} -> raw
                     [] raw \in {"z", "Z"} -> "1"
                     [] raw \in {"x", "X"} ->
                            IF Observed(c, lines) THEN cur_vals[c] ELSE "1"

C2_ResolveRule ==
    [][Len(lines') = Len(lines) + 1 =>
          \A t \in Targets(lines'[Len(lines')]) : C2_Resolved(t[1], t[2])]_vars

\* An x event has kept a column at 0.
C2_Witness ==
    /\ Len(lines) >= 2
    /\ LastLine.kind = "scalar" /\ LastLine.val \in {"x", "X"}
    /\ LastLine.sid = <<"!">>
    /\ Observed(clk, SubSeq(lines, 1, Len(lines) - 1))
    /\ cur_vals[clk] = "0"

\* ------------------------------------------------------------- claim C3
\* C3: a scalar column whose events all carry 0 or 1 holds, after each
\* event, that event's raw value, in both modes.
ScalarEventsOf(c) ==
    {i \in 1..Len(lines) :
        lines[i].kind = "scalar" /\ \E t \in Targets(lines[i]) : t[1] = c}

C3_MirrorsRaw ==
    \A sid \in DOMAIN scalar_sid_to_names :
        \A k \in 1..Len(scalar_sid_to_names[sid]) :
            LET c == scalar_sid_to_names[sid][k]
                ev == ScalarEventsOf(c)
            IN  (ev # {} /\ \A i \in ev : lines[i].val \in {"0", "1"}) =>
                    cur_vals[c] = lines[CHOOSE i \in ev : \A j \in ev : j <= i].val

\* In each mode the column has followed a 0 and then a 1.
C3_Witness ==
    /\ Len(lines) = 2
    /\ lines[1] = ScalarLine("0", <<"!">>) /\ lines[2] = ScalarLine("1", <<"!">>)
    /\ cur_vals[clk] = "1"
    /\ Mode = "uniform"

\* ------------------------------------------------------------- claim C4
\* C4: event mode, a log in which exactly one line changes the value of a
\* column, at tick T, with no bound excluding T (tmin <= T * scale <= tmax
\* where given): exactly one data row is written, at T * scale.
C4_OneChangeOneRow ==
    (/\ pc = "done" /\ Mode = "event"
     /\ Cardinality(ChangeLines(lines)) = 1
     /\ LET T == TickAt(lines, CHOOSE i \in ChangeLines(lines) : TRUE)
        IN  /\ T # None
            /\ (tmin = NoneF \/ Nominal(tmin) <= TickTime(T))
            /\ (tmax = NoneF \/ TickTime(T) <= Nominal(tmax)))
    => /\ Len(out) = 1
       /\ Ps(out[1].t) = TickTime(TickAt(lines, CHOOSE i \in ChangeLines(lines) : TRUE))

\* ------------------------------------------------------------- claim C5
ScenarioLog ==
    <<TimeLine(0), ScalarLine("1", <<"!">>), VectorLine(<<"1", "0">>, <<"\"">>),
      TimeLine(5), ScalarLine("0", <<"!">>)>>

\* C5 as stated: the scenario (clk and a 2-bit data bus, default selection,
\* "#0 1! b10 #5 0!") gives two rows, clk = 1 at time 0 and clk = 0 at
\* 5 * scale, and no data column.
C5_ScenarioTwoRows ==
    (pc = "done" /\ lines = ScenarioLog)
    => /\ signals = <<clk>>
       /\ out = <<[t |-> PsText(0), vals |-> <<"1">>],
                  [t |-> PsText(TickTime(5)), vals |-> <<"0">>]>>

\* C5 amended: the scenario gives exactly one row, clk = 0 at 5 * scale (the
\* "1!" of tick 0 leaves clk at its initial 1, so tick 0 writes no row), and
\* no data column.
C5_ScenarioOneRow ==
    (pc = "done" /\ lines = ScenarioLog)
    => /\ signals = <<clk>>
       /\ out = <<[t |-> PsText(TickTime(5)), vals |-> <<"0">>]>>

C5_Witness == pc = "done" /\ lines = ScenarioLog /\ Len(out) = 1

\* ------------------------------------------------------------- claim C6
\* C6: event mode with --tmax: no row is later than tmax; a change at the
\* tick whose time is exactly tmax gets its row; and the run stops only at
\* a pending row strictly later than tmax, after which nothing is read or
\* written.
C6_TmaxInclusive ==
    (Mode = "event" /\ tmax # NoneF) =>
        /\ \A k \in 1..Len(out) : Ps(out[k].t) <= Nominal(tmax)
        /\ pc = "done" =>
              \A i \in ChangeLines(lines) :
                  LET T == TickAt(lines, i)
                  IN  (/\ T # None
                       /\ TickTime(T) = Nominal(tmax)
                       /\ (tmin = NoneF \/ Nominal(tmin) <= TickTime(T)))
                      => \E k \in 1..Len(out) : Ps(out[k].t) = Nominal(tmax)
        /\ stop => /\ pc = "done"
                   /\ changed_at_time
                   /\ TickTime(cur_time_ticks) > Nominal(tmax)

\* ------------------------------------------------------------- claim C7
\* C7: with --tmin, in both modes, no row is earlier than tmin, and every
\* row written shows the values left by all the events read before it,
\* those of ticks before tmin included.
C7_TminDropsRowsOnly ==
    /\ [](tmin # NoneF => \A k \in 1..Len(out) : Ps(out[k].t) >= Nominal(tmin))
    /\ [][\A k \in (Len(out) + 1)..Len(out') : out'[k].vals = RuleVals(lines)]_vars

\* Event mode: the first row shows a change made at a tick before tmin.
C7_Witness ==
    /\ Mode = "event" /\ tmin # NoneF /\ Len(out) >= 1
    /\ \E i \in ChangeLines(lines) :
          /\ TickAt(lines, i) # None
          /\ TickTime(TickAt(lines, i)) < Nominal(tmin)
          /\ lines[i] = ScalarLine("0", <<"!">>)
          /\ out[1].vals[1] = "0"

\* ------------------------------------------------------------- claim C8
\* C8: uniform mode, step S, no bounds, a log of the two markers 0 and 3S
\* and nothing else: exactly the rows 0, S and 2S are written.
C8_ThreeRows ==
    (/\ pc = "done" /\ Mode = "uniform" /\ tmin = NoneF /\ tmax = NoneF
     /\ Len(lines) = 2 /\ lines[1] = TimeLine(0)
     /\ lines[2].kind = "time"
     /\ TickTime(lines[2].ticks) = 3 * Nominal(uniform_step))
    => /\ Len(out) = 3
       /\ \A k \in 1..3 : Ps(out[k].t) = (k - 1) * Nominal(uniform_step)

\* ------------------------------------------------------------- claim C9
\* The log with every event of a marker later than time s blanked.
EventsUpTo(s) ==
    [i \in 1..Len(lines) |->
        IF TickAt(lines, i) = None \/ TickTime(TickAt(lines, i)) <= s
        THEN lines[i] ELSE SkipLine(BlankLine)]

\* C9: uniform mode, non-decreasing markers: a row of sample time s carries
\* the values left by the events of the markers <= s, and by no other.
C9_RowsCarryEventsUpTo ==
    (Mode = "uniform" /\ NonDecreasing(lines)) =>
        \A k \in 1..Len(out) : out[k].vals = RuleVals(EventsUpTo(Ps(out[k].t)))

\* ------------------------------------------------------------ claim C10
FirstTick ==
    LET ms == {j \in 1..Len(lines) : lines[j].kind = "time"}
    IN  IF ms = {} THEN None ELSE lines[CHOOSE j \in ms : \A q \in ms : j <= q].ticks

\* The later of the first interval's start and tmin.
Anchor ==
    IF tmin # NoneF /\ Nominal(tmin) > TickTime(FirstTick)
    THEN Nominal(tmin) ELSE TickTime(FirstTick)

\* C10: uniform mode: the grid is anchored once, at the later of the first
\* marker and tmin; row k is written at anchor + (k - 1) * step, so no grid
\* point is skipped, and the next sample is the grid point after the rows.
C10_GridAnchoredOnce ==
    (Mode = "uniform" /\ NonDecreasing(lines)) =>
        /\ next_sample_time = NoneF => out = <<>>
        /\ next_sample_time # NoneF =>
              /\ FirstTick # None
              /\ Nominal(next_sample_time)
                     = Anchor + Len(out) * Nominal(uniform_step)
              /\ \A k \in 1..Len(out) :
                     Ps(out[k].t) = Anchor + (k - 1) * Nominal(uniform_step)

\* Rows of two intervals on a grid anchored at tmin, after the first marker.
C10_Witness ==
    /\ Mode = "uniform" /\ NonDecreasing(lines)
    /\ tmin # NoneF /\ Nominal(tmin) > TickTime(FirstTick)
    /\ Len(out) >= 2
    /\ Cardinality({j \in 1..Len(lines) : lines[j].kind = "time"}) >= 3

\* ------------------------------------------------------------ claim C11
\* The time of the last marker read.
LastMarkerTime ==
    LET ms == {j \in 1..Len(lines) : lines[j].kind = "time"}
    IN  TickTime(lines[CHOOSE j \in ms : \A q \in ms : q <= j].ticks)

\* C11: uniform mode with --tmax: no row is later than tmax; and when tmax
\* is a grid point, lying either before the last marker or after it (final
\* emission extended to tmax), the finished run has written the row of tmax.
C11_TmaxInclusiveUniform ==
    (Mode = "uniform" /\ tmax # NoneF) =>
        /\ \A k \in 1..Len(out) : Ps(out[k].t) <= Nominal(tmax)
        /\ (/\ pc = "done" /\ NonDecreasing(lines) /\ FirstTick # None
            /\ Anchor <= Nominal(tmax)
            /\ (Nominal(tmax) - Anchor) % Nominal(uniform_step) = 0
            /\ LastMarkerTime # Nominal(tmax))
           => \E k \in 1..Len(out) : Ps(out[k].t) = Nominal(tmax)

\* ------------------------------------------------------------ claim C12
\* What the viewer-configuration file of the command line yields.
FromGtkw == IF args.gtkw.given THEN parse_gtkw_signals(args.gtkw) ELSE <<>>

\* C12 as stated: a given file is the only source of the column list; the
\* explicit list is used only when no file is given; the default (all
\* scalars) only when neither is given.
C12_FileGivenFileOnly ==
    pc # "main" =>
        /\ args.gtkw.given => wanted_signals = FromGtkw
        /\ (~args.gtkw.given /\ args.signal # <<>>) => wanted_signals = args.signal
        /\ wanted_signals = <<>> => (~args.gtkw.given /\ args.signal = <<>>)

\* C12 amended: a file that yields at least one name is the only source; the
\* explicit list is used when no file is given or the file yields no name;
\* the default (all scalars, sorted) when neither yields a name.
C12_SourcePriority ==
    pc # "main" =>
        /\ FromGtkw # <<>> => wanted_signals = FromGtkw
        /\ (FromGtkw = <<>> /\ args.signal # <<>>) => wanted_signals = args.signal
        /\ (FromGtkw = <<>> /\ args.signal = <<>>) =>
              /\ wanted_signals = <<>>
              /\ signals = sorted(DOMAIN scalar_name2id(vcd.decls))

\* A file that yields names wins over an explicit list that differs.
C12_Witness ==
    /\ pc = "done" /\ args.signal # <<>>
    /\ FromGtkw # <<>> /\ FromGtkw # args.signal
    /\ wanted_signals = FromGtkw /\ signals = FromGtkw

\* ------------------------------------------------------------ claim C13
\* The lines of the file that are kept, stripped.
KeptLines ==
    LET Kept(l) == /\ strip(l) # <<>>
                   /\ strip(l)[1] \notin {"[", "*", "@", "#", ";", "-"}
    IN  [i \in 1..Len(SelectSeq(args.gtkw.text, Kept)) |->
            strip(SelectSeq(args.gtkw.text, Kept)[i])]

\* The expansion of a leaf: base[a:b] steps from a towards b, one by one.
LeafExpansion(leaf) ==
    LET m == RE_BUSNAME(leaf)
    IN  IF m = <<>> THEN <<leaf>>
        ELSE LET a == StrToInt(m[2])
                 b == StrToInt(m[3])
                 dir == IF a < b THEN 1 ELSE 0 - 1
                 n == (IF a < b THEN b - a ELSE a - b) + 1
             IN  [k \in 1..n |-> bit_name(m[1], a + dir * (k - 1))]

RECURSIVE Flatten(_)
Flatten(ss) == IF ss = <<>> THEN <<>> ELSE Head(ss) \o Flatten(Tail(ss))

\* The per-line expansions, concatenated.
Offered ==
    Flatten([i \in 1..Len(KeptLines) |->
                LeafExpansion(split_leaf(split_first(KeptLines[i])))])

FirstIndex(seq, x) == CHOOSE i \in 1..Len(seq) : seq[i] = x /\ \A j \in 1..(i - 1) : seq[j] # x

\* C13: the names taken from a readable file that yields any are the
\* per-line expansions concatenated and de-duplicated in first-seen order:
\* the same set of names, none twice, ordered by first appearance.
C13_FirstSeenOrder ==
    (pc # "main" /\ args.gtkw.given /\ args.gtkw.readable /\ Offered # <<>>) =>
        /\ {wanted_signals[i] : i \in 1..Len(wanted_signals)}
               = {Offered[i] : i \in 1..Len(Offered)}
        /\ \A i, j \in 1..Len(wanted_signals) :
               i < j => /\ wanted_signals[i] # wanted_signals[j]
                        /\ FirstIndex(Offered, wanted_signals[i])
                               < FirstIndex(Offered, wanted_signals[j])

\* An ascending range after its descending twin: every name offered twice,
\* kept once, in the order of the first line.
C13_Witness ==
    /\ pc = "done" /\ args.gtkw.given
    /\ Len(KeptLines) = 2
    /\ RE_BUSNAME(split_leaf(split_first(KeptLines[1]))) # <<>>
    /\ RE_BUSNAME(split_leaf(split_first(KeptLines[2]))) # <<>>
    /\ Len(Offered) = 4 /\ wanted_signals = <<data_1, data_0>>

\* ------------------------------------------------------------ claim C14
\* The declaration a bus identifier stands for, and its range as declared.
BusDecl(sid) ==
    LET ds == {i \in 1..Len(vcd.decls) :
                  vcd.decls[i].sid = sid /\ vcd.decls[i].width # 1}
    IN  vcd.decls[CHOOSE i \in ds : \A j \in ds : j <= i]
DeclMsb(v) == IF v.rng # <<>> THEN v.rng[1] ELSE v.width - 1
DeclLsb(v) == IF v.rng # <<>> THEN v.rng[2] ELSE 0

\* C14: a column base[idx] taken from a bus [msb:lsb] reads the payload at
\* msb - idx (descending) or idx - msb (ascending); [7:0] and base[3] give
\* 4; the offset is within 0..width-1 when width = |msb - lsb| + 1.
C14_OffsetFromMsb ==
    (pc # "main" /\ args.vcd_readable) =>
        \A sid \in DOMAIN busid_to_bits :
            \A i \in 1..Len(busid_to_bits[sid]) :
                LET e == busid_to_bits[sid][i]
                    idx == RE_BUSBIT(e.name)[2]
                    msb == DeclMsb(BusDecl(sid))
                    lsb == DeclLsb(BusDecl(sid))
                    span == (IF msb >= lsb THEN msb - lsb ELSE lsb - msb) + 1
                IN  /\ RE_BUSBIT(e.name)[1] = BusDecl(sid).ref
                    /\ e.offset = IF msb >= lsb THEN msb - idx ELSE idx - msb
                    /\ (msb = 7 /\ lsb = 0 /\ idx = 3) => e.offset = 4
                    /\ BusDecl(sid).width = span => e.offset \in 0..(e.width - 1)

\* data[3] on a bus declared [7:0] reads position 4 of the payload.
C14_Witness ==
    /\ pc = "done"
    /\ \E sid \in DOMAIN busid_to_bits :
          /\ BusDecl(sid).rng = <<7, 0>>
          /\ busid_to_bits[sid][1].name = data_3
          /\ busid_to_bits[sid][1].offset = 4

\* ------------------------------------------------------------ claim C15
\* The raw bit of column base[idx] of a descending bus, read from the right
\* end of the payload: (idx - lsb) positions in, or the pad character.
RightJustifiedBit(bits, k) ==
    IF k < Len(bits) THEN bits[Len(bits) - k]
    ELSE IF Lower(bits[1]) \in {"x", "z"} THEN bits[1] ELSE "0"

\* C15: every vector line, whatever the length of its payload, gives each
\* column base[idx] of its bus the bit (idx - lsb) positions from the right
\* end of the payload, or the pad character when the payload is too short.
C15_RightJustified ==
    [][(/\ Len(lines') = Len(lines) + 1
        /\ lines'[Len(lines')].kind = "vector"
        /\ lines'[Len(lines')].sid \in DOMAIN busid_to_bits)
       => \A i \in 1..Len(busid_to_bits[lines'[Len(lines')].sid]) :
              LET sid == lines'[Len(lines')].sid
                  e == busid_to_bits[sid][i]
                  k == RE_BUSBIT(e.name)[2] - DeclLsb(BusDecl(sid))
              IN  cur_vals'[e.name] =
                      sanitize_bit(RightJustifiedBit(lines'[Len(lines')].bits, k),
                                   cur_vals[e.name])]_vars

\* ------------------------------------------------------------ claim C16
\* A requested name resolves as a scalar alias or as a bit of a declared bus.
IsScalarName(n) ==
    \E i \in 1..Len(vcd.decls) : vcd.decls[i].width = 1 /\ vcd.decls[i].ref = n

IsBusBitName(n) ==
    /\ RE_BUSBIT(n) # <<>>
    /\ \E sid \in {vcd.decls[i].sid : i \in {j \in 1..Len(vcd.decls) : vcd.decls[j].width # 1}} :
          LET v == BusDecl(sid)
              idx == RE_BUSBIT(n)[2]
          IN  /\ v.ref = RE_BUSBIT(n)[1]
              /\ \/ (DeclLsb(v) <= idx /\ idx <= DeclMsb(v))
                 \/ (DeclMsb(v) <= idx /\ idx <= DeclLsb(v))

Resolves(n) == IsScalarName(n) \/ IsBusBitName(n)

Requested == {wanted_signals[i] : i \in 1..Len(wanted_signals)}

\* The fatal conditions found before any output.
InputUnreadable == ~args.vcd_readable
NoDeclaration == vcd.decls = <<>>
MissingName == wanted_signals # <<>> /\ ~ignore_missing /\ \E n \in Requested : ~Resolves(n)
NothingResolves == wanted_signals # <<>> /\ \A n \in Requested : ~Resolves(n)

\* C16: each fatal pre-processing condition ends the run with exit code 1,
\* and a run ended that way has not opened the output file: no header and
\* no row is written.
C16_FatalBeforeOutput ==
    /\ (pc # "main" /\ (InputUnreadable \/ NoDeclaration \/ MissingName \/ NothingResolves))
           => pc = "exit"
    /\ pc = "exit" => (csv = csv_untouched /\ ~csv.opened /\ out = <<>>)

\* A readable header, one requested name that resolves and one that does not.
C16_Witness ==
    /\ pc = "exit" /\ ~InputUnreadable /\ ~NoDeclaration /\ ~NothingResolves
    /\ MissingName /\ ~csv.opened

\* ------------------------------------------------------------ claim C17
\* C17: with ignore-missing and a non-empty requested list, the columns are
\* the requested names that resolve, in the requested order, duplicates
\* kept; when no requested name resolves the run is fatal, with or without
\* ignore-missing.
C17_IgnoreMissingSubsequence ==
    (pc # "main" /\ ~InputUnreadable /\ ~NoDeclaration /\ wanted_signals # <<>>) =>
        /\ NothingResolves => pc = "exit"
        /\ (ignore_missing /\ ~NothingResolves) =>
              /\ signals = SelectSeq(wanted_signals, Resolves)
              /\ args.csv_writable =>
                    /\ pc # "exit"
                    /\ csv.header = <<TimeHeader>> \o SelectSeq(wanted_signals, Resolves)

\* A name that does not resolve is dropped, one that resolves is kept.
C17_Witness ==
    /\ pc = "done" /\ ignore_missing
    /\ \E n \in Requested : ~Resolves(n)
    /\ signals # <<>> /\ Len(signals) < Len(wanted_signals)

\* ------------------------------------------------------------ claim C18
\* The identifier of the first width-1 declaration of a name.
FirstSid(n) ==
    LET ds == {i \in 1..Len(vcd.decls) :
                  vcd.decls[i].width = 1 /\ vcd.decls[i].ref = n}
    IN  vcd.decls[CHOOSE i \in ds : \A j \in ds : i <= j].sid

\* C18: a scalar column is looked up under the identifier of the first
\* declaration of its name and under no other; names sharing an identifier
\* are all looked up under it; and a scalar event changes a column only if
\* it carries that first identifier, in which case the column takes the
\* event's value.
C18_FirstAliasWins ==
    /\ [](\A n \in Columns : \A sid \in {<<"!">>, <<"#">>} :
             (sid \in DOMAIN scalar_sid_to_names
                 /\ \E i \in 1..Len(scalar_sid_to_names[sid]) :
                        scalar_sid_to_names[sid][i] = n)
             <=> (IsScalarName(n) /\ FirstSid(n) = sid))
    /\ [][(Len(lines') = Len(lines) + 1 /\ lines'[Len(lines')].kind = "scalar")
          => \A n \in Columns :
                 cur_vals'[n] = IF FirstSid(n) = lines'[Len(lines')].sid
                                THEN lines'[Len(lines')].val
                                ELSE cur_vals[n]]_vars

\* An event of the second identifier of clk leaves clk alone; an event of the
\* shared first identifier then moves clk and rst together.
C18_Witness ==
    /\ Len(lines) = 2
    /\ lines[1].kind = "scalar" /\ lines[1].sid # FirstSid(clk) /\ lines[1].val = "0"
    /\ lines[2].kind = "scalar" /\ lines[2].sid = FirstSid(clk) /\ lines[2].val = "0"
    /\ FirstSid(clk) = <<"!">> /\ cur_vals[clk] = "0" /\ cur_vals[rst] = "0"

\* ------------------------------------------------------------ claim C19
\* A decimal number: digits with at most one point, ending in a digit.
IsDecimal(t) ==
    /\ t # <<>> /\ IsDigit(t[Len(t)])
    /\ \A i \in 1..Len(t) : IsDigit(t[i]) \/ t[i] = "."
    /\ Cardinality({i \in 1..Len(t) : t[i] = "."}) <= 1

\* A number as documented: decimal, or scientific (mantissa e [+-] digits).
IsNumber(t) ==
    \/ IsDecimal(t)
    \/ \E p \in 2..(Len(t) - 1) :
          /\ t[p] \in {"e", "E"}
          /\ IsDecimal(SubSeq(t, 1, p - 1))
          /\ LET ex == SubSeq(t, p + 1, Len(t))
                 dg == IF ex[1] \in {"-", "+"} THEN Tail(ex) ELSE ex
             IN  dg # <<>> /\ \A i \in 1..Len(dg) : IsDigit(dg[i])

\* <value>[unit] with unit one of fs, ps, ns, us, ms, s.
IsTimeSpec(text) ==
    \E n \in 1..Len(strip(text)) :
        /\ IsNumber(SubSeq(strip(text), 1, n))
        /\ unit_lower(lstrip(SubSeq(strip(text), n + 1, Len(strip(text)))))
               \in {<<>>, <<"f", "s">>, <<"p", "s">>, <<"n", "s">>,
                    <<"u", "s">>, <<"m", "s">>, <<"s">>}

GivenTimeOptions ==
    {t \in {args.tmin, args.tmax, args.uniform_step} : t # <<>>}

\* C19: the documented forms 10ns, 2.5us and 1e-6 are accepted and give the
\* time in seconds; a run is ended with exit code 1 by the time options only
\* when one of them is no <value>[unit] or has an unknown unit.
C19_AcceptsDocumentedForms ==
    pc # "main" =>
        /\ args.tmin = <<"1", "0", "n", "s">> => (tmin # NoneF /\ Nominal(tmin) = 10000)
        /\ args.tmin = <<"2", ".", "5", "u", "s">> => (tmin # NoneF /\ Nominal(tmin) = 2500000)
        /\ args.tmin = <<"1", "e", "-", "6">> => (tmin # NoneF /\ Nominal(tmin) = 1000000)
        /\ pc = "exit" <=> \E t \in GivenTimeOptions : ~IsTimeSpec(t)

\* ------------------------------------------------------------ claim C20
\* The step reads an event line; the step flushes (a marker, or the end).
EventStep ==
    /\ Len(lines') = Len(lines) + 1
    /\ lines'[Len(lines')].kind \in {"scalar", "vector"}
FlushStep ==
    \/ (Len(lines') = Len(lines) + 1 /\ lines'[Len(lines')].kind = "time")
    \/ (pc = "run" /\ pc' = "done" /\ lines' = lines)

\* The event lines of the current tick: those after the last marker.
TickEvents ==
    {i \in 1..Len(lines) :
        /\ lines[i].kind \in {"scalar", "vector"}
        /\ \A j \in i..Len(lines) : lines[j].kind # "time"}

\* Every column the line is mapped to already holds the resolved value.
EqualEvent(l) ==
    \A t \in Targets(l) : RuleResolve(t[2], cur_vals[t[1]]) = cur_vals[t[1]]

\* The effect of one event: nothing when the resolved values are the
\* current ones, else the values stored and the flag armed.
C20_EventFrame ==
    EventStep =>
        IF EqualEvent(lines'[Len(lines')])
        THEN cur_vals' = cur_vals /\ changed_at_time' = changed_at_time
        ELSE /\ \A t \in Targets(lines'[Len(lines')]) :
                    cur_vals'[t[1]] = RuleResolve(t[2], cur_vals[t[1]])
             /\ changed_at_time'

\* The flush of a tick that holds events, none of which changed a value.
QuietTickFlushed ==
    /\ FlushStep /\ cur_time_ticks # None
    /\ TickEvents # {} /\ TickEvents \cap ChangeLines(lines) = {}

\* C20 as stated: event mode; an equal event changes neither the values nor
\* the flag, a differing one stores the value and arms the flag; and a tick
\* holding only equal events writes no row.
C20_QuietTickNoRow ==
    [][Mode = "event" =>
          /\ C20_EventFrame
          /\ QuietTickFlushed => out' = out]_vars

\* C20 amended: the same, the tick writing no row unless a value changed
\* before the first time marker and the tick is the first one.
C20_QuietTickNoRowAfterFlush ==
    [][Mode = "event" =>
          /\ C20_EventFrame
          /\ (/\ QuietTickFlushed
              /\ \/ \A i \in ChangeLines(lines) : TickAt(lines, i) # None
                 \/ Cardinality({j \in 1..Len(lines) : lines[j].kind = "time"}) >= 2)
             => out' = out]_vars

\* A tick with a change writes its row, the next tick repeats the value and
\* writes none.
C20_Witness ==
    /\ pc = "done" /\ Mode = "event" /\ tmin = NoneF /\ tmax = NoneF
    /\ Len(lines) = 4 /\ Len(out) = 1
    /\ lines[1].kind = "time" /\ lines[2] = ScalarLine("0", <<"!">>)
    /\ lines[3].kind = "time" /\ lines[3].ticks > lines[1].ticks
    /\ lines[4] = ScalarLine("0", <<"!">>)

\* ------------------------------------------------------------ claim C21
\* C21: event mode, non-decreasing markers (equal consecutive ticks
\* allowed): at most one row is written per tick value, and the row of a tick
\* carries the column values left by the last event of that tick.
C21_OneRowPerTick ==
    (Mode = "event" /\ NonDecreasing(lines)) =>
        /\ \A j, k \in 1..Len(out) : j < k => Ps(out[j].t) # Ps(out[k].t)
        /\ \A k \in 1..Len(out) : out[k].vals = RuleVals(EventsUpTo(Ps(out[k].t)))

\* ------------------------------------------------------------ claim C22
\* The values at the flush before the one now due: those at the last
\* marker read, or the initial all-1 values when that marker is the first
\* one (no flush happens before a tick is in force).
PreviouslyFlushed ==
    LET ms == {j \in 1..Len(lines) : lines[j].kind = "time"}
        last == CHOOSE j \in ms : \A q \in ms : q <= j
    IN  IF Cardinality(ms) <= 1 THEN [i \in 1..Len(signals) |-> "1"]
        ELSE RuleVals(SubSeq(lines, 1, last))

\* C22: event mode: every row written differs in at least one column from
\* the previously flushed values (all 1 before the first flush), so a value
\* changed and restored within one tick writes no row.
C22_RowDiffersFromLastFlush ==
    [][(Mode = "event" /\ Len(out') = Len(out) + 1)
          => out'[Len(out')].vals # PreviouslyFlushed]_vars

\* ------------------------------------------------------------ claim C23
\* The columns that the header and the selection map to an identifier: the
\* selected scalar names first declared with it, and the selected bits of
\* the bus declared with it.
MappedColumns(sid) ==
    {c \in Columns :
        \/ \E i \in 1..Len(vcd.decls) :
              /\ vcd.decls[i].width = 1 /\ vcd.decls[i].ref = c
              /\ vcd.decls[i].sid = sid
              /\ \A j \in 1..(i - 1) :
                    ~(vcd.decls[j].width = 1 /\ vcd.decls[j].ref = c)
        \/ /\ ~(\E i \in 1..Len(vcd.decls) :
                    vcd.decls[i].width = 1 /\ vcd.decls[i].ref = c)
           /\ RE_BUSBIT(c) # <<>>
           /\ \E i \in 1..Len(vcd.decls) :
                 /\ vcd.decls[i].width > 1 /\ vcd.decls[i].sid = sid
                 /\ vcd.decls[i].ref = RE_BUSBIT(c)[1]
                 /\ RE_BUSBIT(c)[2] \in DeclLsb(vcd.decls[i])..DeclMsb(vcd.decls[i])}

\* The columns a line's event may touch.
EventColumns(l) ==
    IF l.kind = "scalar"
    THEN {c \in MappedColumns(l.sid) : IsScalarName(c)}
    ELSE {c \in MappedColumns(l.sid) : ~IsScalarName(c)}

\* C23: in both modes, an event of an identifier mapped to no selected
\* column changes no column value, nor the pending-change flag, nor the grid
\* anchor; any event changes only columns mapped to its identifier, and a
\* vector event gives each of them the bit at its own offset, whatever the
\* other bits of the payload.
C23_UnmappedIgnored ==
    [][EventStep =>
          LET l == lines'[Len(lines')]
          IN  /\ DOMAIN cur_vals' = DOMAIN cur_vals
              /\ \A c \in Columns \ EventColumns(l) : cur_vals'[c] = cur_vals[c]
              /\ EventColumns(l) = {} =>
                    /\ changed_at_time' = changed_at_time
                    /\ next_sample_time' = next_sample_time
                    /\ out' = out
              /\ \A t \in Targets(l) :
                    /\ t[1] \in EventColumns(l)
                    /\ cur_vals'[t[1]] = RuleResolve(t[2], cur_vals[t[1]])]_vars

\* Events of the undeclared "#" and of the unselected clk were read, then a
\* payload that sets the selected bit data[1] and the unselected data[0].
C23_Witness ==
    /\ signals = <<data_1>> /\ Len(lines) = 3
    /\ lines[1] = ScalarLine("0", <<"#">>)
    /\ lines[2] = ScalarLine("0", <<"!">>)
    /\ lines[3] = VectorLine(<<"0", "0">>, <<"\"">>)
    /\ cur_vals[data_1] = "0"
    /\ changed_at_time = (Mode = "event")

\* ------------------------------------------------------------ claim C24
\* A well-formed "factor + unit" line: digits and one of the units of
\* UNIT_TO_PS.
WellFormedTs(line) ==
    RE_TS(line) # <<>> /\ unit_key(unit_lower(RE_TS(line)[2])) # ""

\* The lines inside the time-scale block: after the first "$timescale" line
\* and before the next "$end" line.
TsBlock(ls) ==
    LET opens == {i \in 1..Len(ls) : strip(ls[i]) = TIMESCALE}
        open == CHOOSE i \in opens : \A j \in opens : i <= j
        ends == {i \in 1..Len(ls) : i > open /\ strip(ls[i]) = END}
    IN  IF opens = {} THEN {}
        ELSE {i \in 1..Len(ls) : i > open /\ \A e \in ends : i < e}

\* Picoseconds per tick by the first well-formed line of the block, 1 when
\* there is none.
FirstWellFormed(ls) ==
    LET wf == {i \in TsBlock(ls) : WellFormedTs(ls[i])}
        first == CHOOSE i \in wf : \A j \in wf : i <= j
    IN  IF wf = {} THEN FFromInt(1)
        ELSE ts_factor(RE_TS(ls[first])[1],
                       unit_key(unit_lower(RE_TS(ls[first])[2])))

\* The lines of the file: the header and the body, as far as it is known.
File == FileLines(vcd, IF vcd.whole THEN vcd.body ELSE lines)

C24_Resolution(ps) ==
    /\ parse_timescale(File) = ps
    /\ ts_sec = FMul(ps, SecondsPerPs)
    /\ \A k \in 1..Len(out) :
           out[k].t = Format12(FMulInt(1, FMul(ps, SecondsPerPs)))

\* C24: the resolution is that of the first well-formed "factor + unit"
\* line inside the time-scale block, later lines not changing it, and 1 ps
\* when the block is absent or holds no well-formed line; every row's time is
\* its tick in that resolution.
C24_FirstTimescaleLine == C24_Resolution(FirstWellFormed(File))

\* ------------------------------------------------------------ claim C25
\* The header holds a bus declaration named base whose range contains idx.
DeclaredBit(n) ==
    /\ RE_BUSBIT(n) # <<>>
    /\ \E i \in 1..Len(vcd.decls) :
          /\ vcd.decls[i].width # 1
          /\ vcd.decls[i].ref = RE_BUSBIT(n)[1]
          /\ \/ RE_BUSBIT(n)[2] \in DeclLsb(vcd.decls[i])..DeclMsb(vcd.decls[i])
             \/ RE_BUSBIT(n)[2] \in DeclMsb(vcd.decls[i])..DeclLsb(vcd.decls[i])

\* C25: a requested name base[idx] for which the header declares a bus base
\* with idx in its range resolves, whether or not another bus declaration
\* shares the identifier: it becomes a column, and a run in which every
\* requested name is such a bit or a scalar does not end on missing names.
C25_DeclaredBitResolves ==
    (pc # "main" /\ wanted_signals # <<>>) =>
        /\ (\A n \in Requested : IsScalarName(n) \/ DeclaredBit(n))
              => (pc # "exit" /\ signals = wanted_signals)
        /\ ignore_missing =>
              \A n \in Requested : DeclaredBit(n) => n \in Columns

\* ------------------------------------------------------------ claim C26
\* C26: for every step the time-spec parser accepts, 0 included, the
\* emission loop advances: each iteration moves the sample time forward, so
\* the loop passes the end of its interval or tmax and the conversion ends.
C26_LoopAdvances ==
    [][(pc \in {"emit", "emit_end"} /\ Len(out') = Len(out) + 1)
          => FLess(next_sample_time, next_sample_time')]_vars

\* ------------------------------------------------------------ claim C27
\* C27: a run that opens the output file and writes the CSV header has at
\* least one output column, whatever the header declares (buses only
\* included) and wherever the requested names come from.
C27_ColumnsNonEmpty ==
    csv.opened => (signals # <<>> /\ Len(csv.header) >= 2)

\* ------------------------------------------------------------ claim C28
\* The column values each mode's update code leaves after the events ls,
\* from the all-1 start.
RECURSIVE EvReplay(_)
EvReplay(ls) ==
    IF ls = <<>> THEN [n \in Columns |-> "1"]
    ELSE LET before == EvReplay(SubSeq(ls, 1, Len(ls) - 1))
             l == ls[Len(ls)]
         IN  IF l.kind = "scalar" /\ l.sid \in DOMAIN scalar_sid_to_names
             THEN ev_scalar_update(scalar_sid_to_names[l.sid], l.val,
                      [vals |-> before, changed |-> FALSE]).vals
             ELSE IF l.kind = "vector" /\ l.sid \in DOMAIN busid_to_bits
             THEN ev_vector_update(busid_to_bits[l.sid], l.bits,
                      [vals |-> before, changed |-> FALSE]).vals
             ELSE before

RECURSIVE UniReplay(_)
UniReplay(ls) ==
    IF ls = <<>> THEN [n \in Columns |-> "1"]
    ELSE LET before == UniReplay(SubSeq(ls, 1, Len(ls) - 1))
             l == ls[Len(ls)]
         IN  IF l.kind = "scalar" /\ l.sid \in DOMAIN scalar_sid_to_names
             THEN uni_scalar_update(scalar_sid_to_names[l.sid], l.val, before)
             ELSE IF l.kind = "vector" /\ l.sid \in DOMAIN busid_to_bits
             THEN uni_vector_update(busid_to_bits[l.sid], l.bits, before)
             ELSE before

\* C28: on the same header, selection and sequence of events, with no
\* tmax, the two modes hold the same column values after every event: the
\* values of the run are those either mode's updates give for its lines.
C28_SameValueUpdates ==
    tmax = NoneF =>
        /\ EvReplay(lines) = UniReplay(lines)
        /\ cur_vals = EvReplay(lines)
        /\ cur_vals = UniReplay(lines)

\* A uniform-mode run with the columns clk and data[0], after a scalar 0,
\* a scalar x and a payload that clears data[0].
C28_Witness ==
    /\ Mode = "uniform" /\ signals = <<clk, data_0>> /\ Len(lines) = 3
    /\ lines[1] = ScalarLine("0", <<"!">>)
    /\ lines[2] = ScalarLine("x", <<"!">>)
    /\ lines[3] = VectorLine(<<"0", "0">>, <<"\"">>)
    /\ cur_vals = EvReplay(lines)
    /\ cur_vals[clk] = "0" /\ cur_vals[data_0] = "0"

\* ------------------------------------------------------------ claim C29
\* C29: with non-decreasing time markers the times of the rows never
\* decrease in the order the rows are written, in either mode, and in
\* uniform mode with a positive step every row has a later time than the
\* row before it.
C29_RowTimesIncrease ==
    NonDecreasing(lines) =>
        /\ \A k \in 2..Len(out) : Ps(out[k - 1].t) <= Ps(out[k].t)
        /\ (Mode = "uniform" /\ FLess(FZero, uniform_step)) =>
               \A k \in 2..Len(out) : Ps(out[k - 1].t) < Ps(out[k].t)

====
